---- MODULE Spec2Model ----
(***************************************************************************)
(* Calendar-to-job inference engine of the cleaning scheduler: the iCal    *)
(* checkout extractor, the upcoming-window filter, the per-property job    *)
(* reconciler (syncProperty) and the calendar-sync handler that runs it    *)
(* over every active property.                                             *)
(*                                                                         *)
(* Time is counted in slots; SlotsPerDay slots make one day.  A Date is    *)
(* the slot number since the epoch (UTC).  The local calendar day, which   *)
(* Date.setHours(0,0,0,0) truncates to, is shifted from the UTC day by the *)
(* zone offset tz; Date.toISOString() always renders the UTC day.          *)
(***************************************************************************)
EXTENDS Integers, Sequences, FiniteSets, TLC

VARIABLES
    tz,          \* zone offset of the runtime, in slots east of UTC
    now,         \* the wall clock, new Date()
    document,    \* input of parseICalData: a calendar document
    outcome,     \* outcome of the last parseICalData call
    events,      \* input of extractCheckouts
    checkouts,   \* result of the last extractCheckouts call
    upcoming,    \* result of the last filterUpcomingCheckouts call
    days,        \* horizon argument of the last filterUpcomingCheckouts call
    stage,       \* "input" -> "extracted" -> "filtered", "document" -> "parsed"
                 \* ("idle": not in use)
    properties,        \* table properties: id -> row
    remote,            \* what the calendar URL of each property serves
    property_cleaners, \* table property_cleaners: property id -> rows
    cleaning_jobs,     \* table cleaning_jobs, in insertion order
    response,          \* the last response of the calendar-sync handler
    faulted,           \* the calls set to fail or to stall in the last run
    fetches,           \* calls of fetch made for each property in the last run
    streak,            \* calendar-sync runs since anything else last changed (0..2)
    changes,           \* number of changes made from outside the handler so far
    runs,              \* number of calendar-sync runs so far
    failures,          \* number of persistence calls that have failed so far
    profiles,          \* table profiles: user id -> row
    sms_logs,          \* table sms_logs, in insertion order
    pushes,            \* the push notifications handed to the push service
    hookResponse,      \* the last response of a webhook or SMS handler
    sms_opt_out,       \* column sms_opt_out of table cleaners: cleaner id -> flag
    outbox,            \* the messages Twilio accepted for delivery
    passes             \* the property passes under way, step by step

-----------------------------------------------------------------------------
(* Bounds of the model *)

SlotsPerDay == 2
MaxDay == 2
MaxTz == 1
MaxEvents == 2
MaxHorizon == 1
MaxEntries == 3
MaxBookings == 3
MaxRequests == 3

(* Program constants *)

DefaultDays == 30

-----------------------------------------------------------------------------
(* Strings are sequences of one-character strings. *)

UpperCase == <<"A","B","C","D","E","F","G","H","I","J","K","L","M",
               "N","O","P","Q","R","S","T","U","V","W","X","Y","Z">>
LowerCase == <<"a","b","c","d","e","f","g","h","i","j","k","l","m",
               "n","o","p","q","r","s","t","u","v","w","x","y","z">>

toLowerCase(s) ==
    [i \in DOMAIN s |->
        IF \E k \in DOMAIN UpperCase : UpperCase[k] = s[i]
        THEN LowerCase[CHOOSE k \in DOMAIN UpperCase : UpperCase[k] = s[i]]
        ELSE s[i]]

includes(s, sub) ==
    \E i \in 0..(Len(s) - Len(sub)) : SubSeq(s, i + 1, i + Len(sub)) = sub

StrBlocked == <<"b","l","o","c","k","e","d">>
StrUnavailable == <<"u","n","a","v","a","i","l","a","b","l","e">>
StrNotAvailable == <<"n","o","t"," ","a","v","a","i","l","a","b","l","e">>
StrBusy == <<"b","u","s","y">>

\* the blocked test of the checkout loop
isBlocked(event) ==
    LET summary == toLowerCase(event.summary)
    IN  \/ includes(summary, StrBlocked)
        \/ includes(summary, StrUnavailable)
        \/ includes(summary, StrNotAvailable)
        \/ summary = StrBusy

\* the lookahead's test without the comparison with 'busy'
isNextBlockedNoBusy(nextEvent) ==
    LET nextSummary == toLowerCase(nextEvent.summary)
    IN  \/ includes(nextSummary, StrBlocked)
        \/ includes(nextSummary, StrUnavailable)
        \/ includes(nextSummary, StrNotAvailable)

\* the blocked test of the next-check-in lookahead
isNextBlocked(nextEvent) ==
    LET nextSummary == toLowerCase(nextEvent.summary)
    IN  \/ includes(nextSummary, StrBlocked)
        \/ includes(nextSummary, StrUnavailable)
        \/ includes(nextSummary, StrNotAvailable)
        \/ nextSummary = StrBusy

\* the blocked test of the same-day scan
isBlockedSameDay(event) ==
    LET summary == toLowerCase(event.summary)
    IN  \/ includes(summary, StrBlocked)
        \/ includes(summary, StrUnavailable)
        \/ includes(summary, StrNotAvailable)
        \/ summary = StrBusy

\* the same three tests in the client's copy of the parser
clientIsBlocked(event) ==
    LET summary == toLowerCase(event.summary)
    IN  \/ includes(summary, StrBlocked)
        \/ includes(summary, StrUnavailable)
        \/ includes(summary, StrNotAvailable)
        \/ summary = StrBusy

clientIsNextBlocked(nextEvent) ==
    LET nextSummary == toLowerCase(nextEvent.summary)
    IN  \/ includes(nextSummary, StrBlocked)
        \/ includes(nextSummary, StrUnavailable)
        \/ includes(nextSummary, StrNotAvailable)
        \/ nextSummary = StrBusy

clientIsBlockedSameDay(event) ==
    LET summary == toLowerCase(event.summary)
    IN  \/ includes(summary, StrBlocked)
        \/ includes(summary, StrUnavailable)
        \/ includes(summary, StrNotAvailable)
        \/ summary = StrBusy

-----------------------------------------------------------------------------
(* Dates *)

\* Date.setHours(0, 0, 0, 0): local midnight of the date's local day
setHoursMidnight(t) == ((t + tz) \div SlotsPerDay) * SlotsPerDay - tz

\* Date.setDate(getDate() + n) on a local midnight
addDays(t, n) == t + n * SlotsPerDay

\* Date.toISOString().split('T')[0]: the UTC calendar date
toISODate(t) == t \div SlotsPerDay

\* the local calendar day of a date, as a day number
LocalDay(t) == (t + tz) \div SlotsPerDay

-----------------------------------------------------------------------------
(* extractCheckouts *)

RECURSIVE InsertByEnd(_, _)
\* insert e after every element whose end is <= e.end (stable)
InsertByEnd(sorted, e) ==
    IF sorted = <<>> THEN <<e>>
    ELSE IF sorted[Len(sorted)].end <= e.end THEN Append(sorted, e)
    ELSE Append(InsertByEnd(SubSeq(sorted, 1, Len(sorted) - 1), e),
                sorted[Len(sorted)])

RECURSIVE SortByEndFrom(_, _, _)
SortByEndFrom(evs, i, acc) ==
    IF i > Len(evs) THEN acc
    ELSE SortByEndFrom(evs, i + 1, InsertByEnd(acc, evs[i]))

\* the copy left in feed order
sortedEventsUnsorted(evs) == evs

\* [...events].sort((a, b) => a.end.getTime() - b.end.getTime())
sortedEvents(evs) == SortByEndFrom(evs, 1, <<>>)

\* the scan leaving out the events that end at the checkout itself
detectSameDayTurnaroundOthersOnly(checkoutDate, evs) ==
    LET checkoutDay == setHoursMidnight(checkoutDate)
    IN  \E k \in DOMAIN evs :
            /\ evs[k].end # checkoutDate
            /\ setHoursMidnight(evs[k].start) = checkoutDay
            /\ ~isBlockedSameDay(evs[k])

\* events.some(event => startDay.getTime() === checkoutDay.getTime()), the
\* blocked events skipped
detectSameDayTurnaround(checkoutDate, evs) ==
    LET checkoutDay == setHoursMidnight(checkoutDate)
    IN  \E k \in DOMAIN evs :
            /\ setHoursMidnight(evs[k].start) = checkoutDay
            /\ ~isBlockedSameDay(evs[k])

\* the lookahead that looks at the following event only
nextCheckinDateAdjacent(sorted, i) ==
    IF i + 1 <= Len(sorted) /\ ~isNextBlocked(sorted[i + 1])
    THEN <<sorted[i + 1].start>>
    ELSE <<>>

\* the lookahead loop over j = i+1 ..: start of the first non-blocked event
nextCheckinDate(sorted, i) ==
    LET later == {j \in (i + 1)..Len(sorted) : ~isNextBlocked(sorted[j])}
    IN  IF later = {} THEN <<>>
        ELSE <<sorted[CHOOSE j \in later : \A k \in later : j <= k].start>>

RECURSIVE ExtractFrom(_, _, _)
ExtractFrom(sorted, i, acc) ==
    IF i > Len(sorted) THEN acc
    ELSE IF isBlocked(sorted[i]) THEN ExtractFrom(sorted, i + 1, acc)
    ELSE ExtractFrom(sorted, i + 1,
            Append(acc, [date |-> sorted[i].end,
                         event |-> sorted[i],
                         has_same_day_checkin |->
                             detectSameDayTurnaround(sorted[i].end, sorted),
                         next_checkin_date |-> nextCheckinDate(sorted, i)]))

extractCheckouts(evs) ==
    IF Len(evs) = 0 THEN <<>>
    ELSE ExtractFrom(sortedEvents(evs), 1, <<>>)

-----------------------------------------------------------------------------
(* filterUpcomingCheckouts *)

\* the window with its far end excluded
filterUpcomingCheckoutsExclusive(cs, n) ==
    LET today == setHoursMidnight(now)
        futureDate == addDays(today, n)
        keep(c) == LET checkoutDay == setHoursMidnight(c.date)
                   IN  checkoutDay >= today /\ checkoutDay < futureDate
    IN  SelectSeq(cs, keep)

filterUpcomingCheckouts(cs, n) ==
    LET today == setHoursMidnight(now)
        futureDate == addDays(today, n)
        keep(c) == LET checkoutDay == setHoursMidnight(c.date)
                   IN  checkoutDay >= today /\ checkoutDay <= futureDate
    IN  SelectSeq(cs, keep)

-----------------------------------------------------------------------------
(* Bounds of the store model *)

NumProperties == 2
MaxFaults == 1
MaxChanges == 2
MaxRuns == 2

PropertyIds == 1..NumProperties

PropertyName(p) == <<"Property", p>>

\* every property belongs to the one host account
UserIds == {"host"}
CleanerIds == {"cleaner-a", "cleaner-b"}
CustomerOf(u) == <<"cus", u>>

Some(x) == <<x>>
None == <<>>

-----------------------------------------------------------------------------
(* parseICalData, parseICalFromUrl *)

\* the parse given up at the first entry that cannot be read
parseICalDataStrict(icalData) ==
    IF icalData.kind = "garbage"
       \/ \E k \in DOMAIN icalData.vevents : icalData.vevents[k].malformed
    THEN [ok |-> FALSE, error |-> <<"Failed to parse iCal data">>, events |-> <<>>]
    ELSE LET usable(v) == v.dtstart # None
             toEvent(v) ==
                 [uid |-> v.uid,
                  summary |-> IF v.summary = <<>>
                              THEN <<"U","n","t","i","t","l","e","d"," ",
                                     "E","v","e","n","t">>
                              ELSE v.summary,
                  start |-> v.dtstart[1],
                  end |-> IF v.dtend # None THEN v.dtend[1] ELSE v.dtstart[1]]
             kept == SelectSeq(icalData.vevents, usable)
         IN  [ok |-> TRUE, error |-> <<>>,
              events |-> [i \in DOMAIN kept |-> toEvent(kept[i])]]

\* ICAL.parse + the loop over the vevent subcomponents
parseICalData(icalData) ==
    IF icalData.kind = "garbage"
    THEN [ok |-> FALSE, error |-> <<"Failed to parse iCal data">>, events |-> <<>>]
    ELSE LET usable(v) == ~v.malformed /\ v.dtstart # None
             toEvent(v) ==
                 [uid |-> v.uid,
                  summary |-> IF v.summary = <<>>
                              THEN <<"U","n","t","i","t","l","e","d"," ",
                                     "E","v","e","n","t">>
                              ELSE v.summary,
                  start |-> v.dtstart[1],
                  end |-> IF v.dtend # None THEN v.dtend[1] ELSE v.dtstart[1]]
             kept == SelectSeq(icalData.vevents, usable)
         IN  [ok |-> TRUE, error |-> <<>>,
              events |-> [i \in DOMAIN kept |-> toEvent(kept[i])]]

\* the fetch repeated once when its first response is unusable
parseICalFromUrlRetry(served) ==
    IF ~(served.status >= 200 /\ served.status <= 299)
    THEN [ok |-> FALSE,
          error |-> <<"Failed to fetch iCal: ", served.status, " ", served.statusText>>,
          events |-> <<>>, fetches |-> 2]
    ELSE IF served.body.kind \in {"empty", "blank"}
    THEN [ok |-> FALSE, error |-> <<"iCal data is empty">>, events |-> <<>>,
          fetches |-> 2]
    ELSE LET parsed == parseICalData(served.body)
         IN  [ok |-> parsed.ok, error |-> parsed.error, events |-> parsed.events,
              fetches |-> 1]

\* response.ok is status in 200..299; icalData.trim().length === 0 covers
\* the empty and the whitespace-only body.  An error message is the
\* sequence of the parts of its template; fetches counts the calls of fetch.
parseICalFromUrl(served) ==
    IF ~(served.status >= 200 /\ served.status <= 299)
    THEN [ok |-> FALSE,
          error |-> <<"Failed to fetch iCal: ", served.status, " ", served.statusText>>,
          events |-> <<>>, fetches |-> 1]
    ELSE IF served.body.kind \in {"empty", "blank"}
    THEN [ok |-> FALSE, error |-> <<"iCal data is empty">>, events |-> <<>>,
          fetches |-> 1]
    ELSE LET parsed == parseICalData(served.body)
         IN  [ok |-> parsed.ok, error |-> parsed.error, events |-> parsed.events,
              fetches |-> 1]

-----------------------------------------------------------------------------
(* syncProperty *)

HasFault(fs, kind, p, i) ==
    [kind |-> kind, property |-> p, index |-> i] \in fs

\* the assignment without its fallback to the first configured cleaner
assignedCleanerIdPrimaryOnly(propertyCleaners) ==
    LET prim == {k \in DOMAIN propertyCleaners : propertyCleaners[k].is_primary}
    IN  IF prim # {}
        THEN Some(propertyCleaners[CHOOSE k \in prim : \A m \in prim : k <= m].cleaner_id)
        ELSE None

\* propertyCleaners.find(pc => pc.is_primary)?.cleaner_id
\*   || propertyCleaners[0]?.cleaner_id || null
assignedCleanerId(propertyCleaners) ==
    LET prim == {k \in DOMAIN propertyCleaners : propertyCleaners[k].is_primary}
    IN  IF prim # {}
        THEN Some(propertyCleaners[CHOOSE k \in prim : \A m \in prim : k <= m].cleaner_id)
        ELSE IF Len(propertyCleaners) > 0 THEN Some(propertyCleaners[1].cleaner_id)
        ELSE None

\* checkout.date.toISOString().split('T')[0]
checkoutDateStr(checkout) == toISODate(checkout.date)

checkinDateStr(checkout) ==
    IF checkout.next_checkin_date # None
    THEN Some(toISODate(checkout.next_checkin_date[1]))
    ELSE None

\* the query given the full timestamp instead of its date portion
existingJobsRaw(jobs, property_id, checkout) ==
    {k \in DOMAIN jobs : /\ jobs[k].property_id = property_id
                         /\ jobs[k].checkout_date = checkout.date}

\* select id from cleaning_jobs where property_id = .. and checkout_date = ..
existingJobs(jobs, property_id, checkout) ==
    {k \in DOMAIN jobs : /\ jobs[k].property_id = property_id
                         /\ jobs[k].checkout_date = checkoutDateStr(checkout)}

\* the skip taken only when more than one job is found
alreadyExistsOffByOne(existing) == Cardinality(existing) > 1

\* existingJobs && existingJobs.length > 0
alreadyExists(existing) == Cardinality(existing) > 0

\* the job stored under the local calendar date of the checkout
newJobLocalDate(property_id, assigned, checkout) ==
    [property_id |-> property_id,
     cleaner_id |-> assigned,
     checkout_date |-> LocalDay(checkout.date),
     checkin_date |-> checkinDateStr(checkout),
     status |-> "pending",
     is_same_day_turnaround |-> checkout.has_same_day_checkin]

newJob(property_id, assigned, checkout) ==
    [property_id |-> property_id,
     cleaner_id |-> assigned,
     checkout_date |-> checkoutDateStr(checkout),
     checkin_date |-> checkinDateStr(checkout),
     status |-> "pending",
     is_same_day_turnaround |-> checkout.has_same_day_checkin]

RECURSIVE ProcessCheckoutsUpsert(_, _, _, _, _, _, _)
\* the loop refreshing a job it finds instead of skipping it
ProcessCheckoutsUpsert(p, ups, i, assigned, fs, jobs, created) ==
    IF i > Len(ups) THEN [jobs |-> jobs, jobs_created |-> created]
    ELSE IF HasFault(fs, "check", p, i)
    THEN ProcessCheckoutsUpsert(p, ups, i + 1, assigned, fs, jobs, created)
    ELSE IF alreadyExists(existingJobs(jobs, p, ups[i]))
    THEN ProcessCheckoutsUpsert(p, ups, i + 1, assigned, fs,
            [k \in DOMAIN jobs |->
                IF k \in existingJobs(jobs, p, ups[i])
                THEN newJob(p, assigned, ups[i]) ELSE jobs[k]],
            created)
    ELSE IF HasFault(fs, "insert", p, i)
    THEN ProcessCheckoutsUpsert(p, ups, i + 1, assigned, fs, jobs, created)
    ELSE ProcessCheckoutsUpsert(p, ups, i + 1, assigned, fs,
                          Append(jobs, newJob(p, assigned, ups[i])), created + 1)

RECURSIVE ProcessCheckoutsBreak(_, _, _, _, _, _, _)
\* the loop left at the first insert that fails
ProcessCheckoutsBreak(p, ups, i, assigned, fs, jobs, created) ==
    IF i > Len(ups) THEN [jobs |-> jobs, jobs_created |-> created]
    ELSE IF HasFault(fs, "check", p, i)
    THEN ProcessCheckoutsBreak(p, ups, i + 1, assigned, fs, jobs, created)
    ELSE IF alreadyExists(existingJobs(jobs, p, ups[i]))
    THEN ProcessCheckoutsBreak(p, ups, i + 1, assigned, fs, jobs, created)
    ELSE IF HasFault(fs, "insert", p, i)
    THEN [jobs |-> jobs, jobs_created |-> created]
    ELSE ProcessCheckoutsBreak(p, ups, i + 1, assigned, fs,
                          Append(jobs, newJob(p, assigned, ups[i])), created + 1)

RECURSIVE ProcessCheckoutsCountAttempts(_, _, _, _, _, _, _)
\* the loop counting an insert before its result is known
ProcessCheckoutsCountAttempts(p, ups, i, assigned, fs, jobs, created) ==
    IF i > Len(ups) THEN [jobs |-> jobs, jobs_created |-> created]
    ELSE IF HasFault(fs, "check", p, i)
    THEN ProcessCheckoutsCountAttempts(p, ups, i + 1, assigned, fs, jobs, created)
    ELSE IF alreadyExists(existingJobs(jobs, p, ups[i]))
    THEN ProcessCheckoutsCountAttempts(p, ups, i + 1, assigned, fs, jobs, created)
    ELSE IF HasFault(fs, "insert", p, i)
    THEN ProcessCheckoutsCountAttempts(p, ups, i + 1, assigned, fs, jobs, created + 1)
    ELSE ProcessCheckoutsCountAttempts(p, ups, i + 1, assigned, fs,
                          Append(jobs, newJob(p, assigned, ups[i])), created + 1)

RECURSIVE ProcessCheckouts(_, _, _, _, _, _, _)
\* for (const checkout of upcomingCheckouts) { ... }
ProcessCheckouts(p, ups, i, assigned, fs, jobs, created) ==
    IF i > Len(ups) THEN [jobs |-> jobs, jobs_created |-> created]
    ELSE IF HasFault(fs, "check", p, i)
    THEN ProcessCheckouts(p, ups, i + 1, assigned, fs, jobs, created)
    ELSE IF alreadyExists(existingJobs(jobs, p, ups[i]))
    THEN ProcessCheckouts(p, ups, i + 1, assigned, fs, jobs, created)
    ELSE IF HasFault(fs, "insert", p, i)
    THEN ProcessCheckouts(p, ups, i + 1, assigned, fs, jobs, created)
    ELSE ProcessCheckouts(p, ups, i + 1, assigned, fs,
                          Append(jobs, newJob(p, assigned, ups[i])), created + 1)

\* the checkouts a pass of property p works through, given what its URL serves
upcomingCheckouts(evs) == filterUpcomingCheckouts(extractCheckouts(evs), DefaultDays)

\* one pass: the result, the store and the property row afterwards
\* the pass that looks the cleaners up only after the jobs are stored
syncPropertyLateLookup(p, row, fs, jobs) ==
    LET parsed == parseICalFromUrl(remote[p])
        failed(msg, stored) ==
            [result |-> [property_id |-> p, property_name |-> PropertyName(p),
                         success |-> FALSE, jobs_created |-> 0, error |-> msg],
             fetches |-> parsed.fetches,
             jobs |-> stored,
             row |-> IF HasFault(fs, "update", p, 0) THEN row
                     ELSE [row EXCEPT !.sync_error = Some(msg)]]
    IN  IF ~parsed.ok THEN failed(parsed.error, jobs)
        ELSE LET done == ProcessCheckouts(p, upcomingCheckouts(parsed.events), 1,
                             assignedCleanerId(property_cleaners[p]), fs, jobs, 0)
             IN  IF HasFault(fs, "cleaners", p, 0)
                 THEN failed(<<"Failed to fetch cleaners: ", "connection error">>,
                             done.jobs)
                 ELSE [result |-> [property_id |-> p, property_name |-> PropertyName(p),
                                   success |-> TRUE, jobs_created |-> done.jobs_created],
                       fetches |-> parsed.fetches,
                       jobs |-> done.jobs,
                       row |-> IF HasFault(fs, "update", p, 0) THEN row
                               ELSE [row EXCEPT !.last_synced = Some(now),
                                                !.sync_error = None]]

syncProperty(p, row, fs, jobs) ==
    LET parsed == parseICalFromUrl(remote[p])
        failed(msg) ==
            [result |-> [property_id |-> p, property_name |-> PropertyName(p),
                         success |-> FALSE, jobs_created |-> 0, error |-> msg],
             fetches |-> parsed.fetches,
             jobs |-> jobs,
             row |-> IF HasFault(fs, "update", p, 0) THEN row
                     ELSE [row EXCEPT !.sync_error = Some(msg)]]
    IN  IF ~parsed.ok THEN failed(parsed.error)
        ELSE IF HasFault(fs, "cleaners", p, 0)
        THEN failed(<<"Failed to fetch cleaners: ", "connection error">>)
        ELSE LET done == ProcessCheckouts(p, upcomingCheckouts(parsed.events), 1,
                             assignedCleanerId(property_cleaners[p]), fs, jobs, 0)
             IN  [result |-> [property_id |-> p, property_name |-> PropertyName(p),
                              success |-> TRUE, jobs_created |-> done.jobs_created],
                  fetches |-> parsed.fetches,
                  jobs |-> done.jobs,
                  row |-> IF HasFault(fs, "update", p, 0) THEN row
                          ELSE [row EXCEPT !.last_synced = Some(now),
                                           !.sync_error = None]]

-----------------------------------------------------------------------------
(* the calendar-sync handler *)

RECURSIVE SyncEachAbort(_, _, _, _, _, _, _)
\* the loop ended by the first property whose pass fails
SyncEachAbort(ids, i, fs, jobs, rows, results, fetched) ==
    IF i > Len(ids)
    THEN [jobs |-> jobs, rows |-> rows, results |-> results, fetches |-> fetched]
    ELSE LET r == syncProperty(ids[i], rows[ids[i]], fs, jobs)
         IN  IF ~r.result.success
             THEN [jobs |-> r.jobs, rows |-> [rows EXCEPT ![ids[i]] = r.row],
                   results |-> Append(results, r.result),
                   fetches |-> [fetched EXCEPT ![ids[i]] = r.fetches]]
             ELSE SyncEachAbort(ids, i + 1, fs, r.jobs,
                      [rows EXCEPT ![ids[i]] = r.row], Append(results, r.result),
                      [fetched EXCEPT ![ids[i]] = r.fetches])

RECURSIVE SyncEach(_, _, _, _, _, _, _)
\* for (const property of properties) results.push(await syncProperty(..))
SyncEach(ids, i, fs, jobs, rows, results, fetched) ==
    IF i > Len(ids)
    THEN [jobs |-> jobs, rows |-> rows, results |-> results, fetches |-> fetched]
    ELSE LET r == syncProperty(ids[i], rows[ids[i]], fs, jobs)
         IN  SyncEach(ids, i + 1, fs, r.jobs,
                      [rows EXCEPT ![ids[i]] = r.row], Append(results, r.result),
                      [fetched EXCEPT ![ids[i]] = r.fetches])

RECURSIVE SumJobsCreated(_, _)
SumJobsCreated(results, i) ==
    IF i > Len(results) THEN 0
    ELSE results[i].jobs_created + SumJobsCreated(results, i + 1)

RECURSIVE Ascending(_)
\* a finite set of integers as an ascending sequence
Ascending(S) ==
    IF S = {} THEN <<>>
    ELSE LET m == CHOOSE x \in S : \A y \in S : y <= x
         IN  Append(Ascending(S \ {m}), m)

\* select * from properties where active = true
activeProperties(rows) == Ascending({p \in DOMAIN rows : rows[p].active})

\* the handler's outcome for a given list of active properties
runSync(ids, fs, jobs, rows) ==
    IF HasFault(fs, "properties", 0, 0)
    THEN [jobs |-> jobs, rows |-> rows, fetches |-> [p \in PropertyIds |-> 0],
          response |-> [status |-> 500,
                        body |-> [error |-> <<"Failed to fetch properties: ",
                                              "connection error">>]]]
    ELSE IF Len(ids) = 0
    THEN [jobs |-> jobs, rows |-> rows, fetches |-> [p \in PropertyIds |-> 0],
          response |-> [status |-> 200,
                        body |-> [message |-> "No active properties to sync",
                                  synced |-> 0, errors |-> 0, jobs_created |-> 0]]]
    ELSE LET all == SyncEach(ids, 1, fs, jobs, rows, <<>>, [p \in PropertyIds |-> 0])
             ok(r) == r.success
             notOk(r) == ~r.success
         IN  [jobs |-> all.jobs, rows |-> all.rows, fetches |-> all.fetches,
              response |-> [status |-> 200,
                            body |-> [message |-> "Calendar sync completed",
                                      synced |-> Len(SelectSeq(all.results, ok)),
                                      errors |-> Len(SelectSeq(all.results, notOk)),
                                      jobs_created |-> SumJobsCreated(all.results, 1),
                                      details |-> all.results]]]


-----------------------------------------------------------------------------
(* What the calendar URLs may serve *)

SummaryReserved == <<"R","e","s","e","r","v","e","d">>
SummaryNotAvailable == <<"N","o","t"," ","a","v","a","i","l","a","b","l","e">>
SummaryBusy == <<"B","u","s","y">>

SummaryPool == {SummaryReserved, SummaryNotAvailable, SummaryBusy}

At(day, slot) == day * SlotsPerDay + slot
Late == SlotsPerDay - 1

VEvent(summary, dtstart, dtend) ==
    [uid |-> "u", summary |-> summary, dtstart |-> dtstart, dtend |-> dtend,
     malformed |-> FALSE]

Calendar(vevents) ==
    [status |-> 200, statusText |-> "OK",
     body |-> [kind |-> "calendar", vevents |-> vevents]]

\* a stay ending on day 2, the next guest arriving that afternoon and
\* leaving beyond the 30-day horizon
FeedTurnover ==
    Calendar(<<VEvent(SummaryReserved, Some(At(0, Late)), Some(At(2, 0))),
               VEvent(SummaryReserved, Some(At(2, Late)),
                      Some(At(DefaultDays + 2, 0)))>>)

\* the same stay with its checkout moved to the afternoon, a host block, and
\* a second booking that ends on the same date
FeedShifted ==
    Calendar(<<VEvent(SummaryReserved, Some(At(0, Late)), Some(At(2, Late))),
               VEvent(SummaryNotAvailable, Some(At(2, Late)), Some(At(3, 0))),
               VEvent(SummaryReserved, Some(At(1, 0)), Some(At(2, 0)))>>)

\* a broken entry, an entry without DTSTART, an entry without DTEND and a
\* stay that ended on day 0
FeedRagged ==
    Calendar(<<[VEvent(SummaryReserved, None, None) EXCEPT !.malformed = TRUE],
               VEvent(SummaryReserved, None, Some(At(2, 0))),
               VEvent(<<>>, Some(At(1, Late)), None),
               VEvent(SummaryReserved, Some(0), Some(At(0, Late)))>>)

FeedServerError ==
    [status |-> 500, statusText |-> "Internal Server Error",
     body |-> [kind |-> "garbage", vevents |-> <<>>]]
FeedNotFound ==
    [status |-> 404, statusText |-> "Not Found",
     body |-> [kind |-> "empty", vevents |-> <<>>]]
FeedEmpty ==
    [status |-> 200, statusText |-> "OK", body |-> [kind |-> "empty", vevents |-> <<>>]]
FeedBlank ==
    [status |-> 200, statusText |-> "OK", body |-> [kind |-> "blank", vevents |-> <<>>]]
FeedGarbage ==
    [status |-> 200, statusText |-> "OK", body |-> [kind |-> "garbage", vevents |-> <<>>]]

FeedPool == {FeedTurnover, FeedShifted, FeedRagged,
             FeedServerError, FeedNotFound, FeedEmpty, FeedBlank, FeedGarbage}

CleanerListPool ==
    << <<>>,
       <<[cleaner_id |-> "cleaner-a", is_primary |-> FALSE]>>,
       <<[cleaner_id |-> "cleaner-b", is_primary |-> TRUE],
         [cleaner_id |-> "cleaner-a", is_primary |-> FALSE]>> >>

\* the persistence calls of one run that may return an error, and the
\* passes that may still be awaiting their fetch ("stall") when the time
\* allowed for a whole run has elapsed
FaultPool ==
    {[kind |-> "properties", property |-> 0, index |-> 0]}
    \cup {[kind |-> k, property |-> p, index |-> 0] :
            k \in {"cleaners", "update", "stall"}, p \in PropertyIds}
    \cup {[kind |-> k, property |-> p, index |-> i] :
            k \in {"check", "insert"}, p \in PropertyIds,
            i \in 1..Len(FeedShifted.body.vevents)}

RECURSIVE FaultSets(_)
\* the sets of at most budget faults
FaultSets(budget) ==
    IF budget <= 0 THEN {{}}
    ELSE LET fewer == FaultSets(budget - 1)
         IN  fewer \cup {fs \cup {f} : fs \in fewer, f \in FaultPool}

JobUpdatePool ==
    {[cleaner_id |-> Some("cleaner-z"), status |-> "pending"],
     [cleaner_id |-> None, status |-> "confirmed"]}

\* the tables of the webhook handlers before any delivery
HooksIdle ==
    /\ profiles = [u \in UserIds |->
                      [stripe_customer_id |-> CustomerOf(u),
                       subscription_status |-> "trialing"]]
    /\ sms_logs = <<>>
    /\ pushes = <<>>
    /\ hookResponse = [status |-> 0]
    /\ sms_opt_out = [c \in CleanerIds |-> FALSE]
    /\ outbox = <<>>
    /\ passes = <<>>

\* no document at hand, no parse made yet
NoDocument == [kind |-> "empty", vevents |-> <<>>]
NotParsed == [ok |-> FALSE, error |-> <<>>, events |-> <<>>]

-----------------------------------------------------------------------------
(* The store and the handler *)

\* the cleaners configured for a property: none, one, or two with a primary
CleanersOf(p) == CleanerListPool[(p % Len(CleanerListPool)) + 1]

Init ==
    /\ tz \in 0..MaxTz
    /\ now = At(1, 0)
    /\ properties = [p \in PropertyIds |->
                        [active |-> TRUE, last_synced |-> None, sync_error |-> None]]
    /\ remote = [p \in PropertyIds |-> FeedTurnover]
    /\ property_cleaners = [p \in PropertyIds |-> CleanersOf(p)]
    /\ cleaning_jobs = <<>>
    /\ response = [status |-> 0]
    /\ faulted = {}
    /\ fetches = [p \in PropertyIds |-> 0]
    /\ streak = 0
    /\ changes = 0
    /\ runs = 0
    /\ failures = 0
    /\ HooksIdle
    /\ document = NoDocument
    /\ outcome = NotParsed
    /\ events = <<>>
    /\ checkouts = <<>>
    /\ upcoming = <<>>
    /\ days = 0
    /\ stage = "idle"

fnVars == <<document, outcome, events, checkouts, upcoming, days, stage>>

storeVars == <<properties, remote, property_cleaners, cleaning_jobs, response,
               faulted, fetches, streak, changes, runs, failures>>

hookVars == <<profiles, sms_logs, pushes, hookResponse, sms_opt_out, outbox, passes>>

vars == <<tz, now, fnVars, storeVars, hookVars>>

\* the scheduler invokes the calendar-sync handler
CalendarSync ==
    \E fs \in FaultSets(MaxFaults - failures) :
        LET out == runSync(activeProperties(properties), fs, cleaning_jobs, properties)
        IN  /\ runs < MaxRuns
            /\ runs' = runs + 1
            /\ failures' = failures + Cardinality(fs)
            /\ cleaning_jobs' = out.jobs
            /\ properties' = out.rows
            /\ response' = out.response
            /\ faulted' = fs
            /\ fetches' = out.fetches
            /\ streak' = IF streak < 2 THEN streak + 1 ELSE 2
            /\ UNCHANGED <<tz, now, remote, property_cleaners, changes, fnVars, hookVars>>

\* the booking platform changes what a calendar URL serves
PublishFeed ==
    \E p \in PropertyIds, f \in FeedPool :
        /\ changes < MaxChanges
        /\ f # remote[p]
        /\ remote' = [remote EXCEPT ![p] = f]
        /\ streak' = 0
        /\ changes' = changes + 1
        /\ UNCHANGED <<tz, now, properties, property_cleaners, cleaning_jobs,
                       response, faulted, fetches, runs, failures, fnVars, hookVars>>

\* time passes: at most a day
Tick ==
    /\ changes < MaxChanges
    /\ now' \in (now + 1)..(now + SlotsPerDay)
    /\ streak' = 0
    /\ changes' = changes + 1
    /\ UNCHANGED <<tz, remote, properties, property_cleaners, cleaning_jobs,
                   response, faulted, fetches, runs, failures, fnVars, hookVars>>

\* updateJob of the jobs service: the host reassigns or confirms a job
UpdateJob ==
    /\ changes < MaxChanges
    /\ \E k \in DOMAIN cleaning_jobs, u \in JobUpdatePool :
        /\ cleaning_jobs' =
              [cleaning_jobs EXCEPT
                 ![k] = [@ EXCEPT !.cleaner_id = IF u.cleaner_id # None
                                                 THEN u.cleaner_id ELSE @,
                                  !.status = u.status]]
        /\ cleaning_jobs' # cleaning_jobs
    /\ changes' = changes + 1
    /\ streak' = 0
    /\ UNCHANGED <<tz, now, remote, properties, property_cleaners,
                   response, faulted, fetches, runs, failures, fnVars, hookVars>>

\* a property is activated or deactivated
SetActive ==
    \E p \in PropertyIds :
        /\ changes < MaxChanges
        /\ properties' = [properties EXCEPT ![p].active = ~@]
        /\ streak' = 0
        /\ changes' = changes + 1
        /\ UNCHANGED <<tz, now, remote, property_cleaners, cleaning_jobs,
                       response, faulted, fetches, runs, failures, fnVars, hookVars>>

\* removeCleanerFromProperty of the cleaners service: the host takes a
\* cleaner off a property
RemoveCleanerFromProperty ==
    \E p \in PropertyIds :
        \E k \in DOMAIN property_cleaners[p] :
            LET rest(j) == IF j < k THEN property_cleaners[p][j]
                           ELSE property_cleaners[p][j + 1]
            IN  /\ changes < MaxChanges
                /\ property_cleaners' =
                      [property_cleaners EXCEPT
                          ![p] = [j \in 1..(Len(@) - 1) |-> rest(j)]]
                /\ streak' = 0
                /\ changes' = changes + 1
                /\ UNCHANGED <<tz, now, remote, properties, cleaning_jobs,
                               response, faulted, fetches, runs, failures, fnVars, hookVars>>

Next ==
    \/ CalendarSync
    \/ PublishFeed
    \/ Tick
    \/ UpdateJob
    \/ SetActive
    \/ RemoveCleanerFromProperty

-----------------------------------------------------------------------------
(* Inputs of the pure pipeline *)

\* first and last slot of each day
TimePool ==
    {d * SlotsPerDay + s : d \in 0..MaxDay, s \in {0, SlotsPerDay - 1}}

EventPool ==
    {[uid |-> "u", summary |-> s, start |-> a, end |-> b] :
        s \in SummaryPool,
        a \in TimePool,
        b \in TimePool} \ {e \in [uid : {"u"}, summary : SummaryPool,
                                   start : TimePool, end : TimePool] :
                              e.start > e.end}

EventSeqs == UNION {[1..n -> EventPool] : n \in 0..MaxEvents}

HorizonPool == (0..MaxHorizon) \cup {DefaultDays}

NowPool == {SlotsPerDay, 2 * SlotsPerDay - 1}

FnInit ==
    /\ tz \in 0..MaxTz
    /\ now \in NowPool
    /\ document = NoDocument
    /\ outcome = NotParsed
    /\ events \in EventSeqs
    /\ checkouts = <<>>
    /\ upcoming = <<>>
    /\ days = 0
    /\ stage = "input"
    /\ properties = [p \in PropertyIds |->
                        [active |-> FALSE, last_synced |-> None, sync_error |-> None]]
    /\ remote = [p \in PropertyIds |-> FeedBlank]
    /\ property_cleaners = [p \in PropertyIds |-> <<>>]
    /\ cleaning_jobs = <<>>
    /\ response = [status |-> 0]
    /\ faulted = {}
    /\ fetches = [p \in PropertyIds |-> 0]
    /\ streak = 0
    /\ changes = 0
    /\ runs = 0
    /\ failures = 0
    /\ HooksIdle

ExtractCheckouts ==
    /\ stage = "input"
    /\ checkouts' = extractCheckouts(events)
    /\ stage' = "extracted"
    /\ UNCHANGED <<tz, now, document, outcome, events, upcoming, days, storeVars, hookVars>>

FilterUpcomingCheckouts ==
    /\ stage = "extracted"
    /\ \E n \in HorizonPool :
        /\ days' = n
        /\ upcoming' = filterUpcomingCheckouts(checkouts, n)
    /\ stage' = "filtered"
    /\ UNCHANGED <<tz, now, document, outcome, events, checkouts, storeVars, hookVars>>

FnNext == ExtractCheckouts \/ FilterUpcomingCheckouts

FnSpec == FnInit /\ [][FnNext]_vars

-----------------------------------------------------------------------------
(* Inputs of the parser *)

\* a booking, an entry without SUMMARY and DTEND, a host block, an entry
\* without DTSTART and an entry that ICAL.Event cannot read
VEntryPool ==
    {[uid |-> "booking", summary |-> SummaryReserved,
      dtstart |-> Some(At(0, Late)), dtend |-> Some(At(1, 0)), malformed |-> FALSE],
     [uid |-> "bare", summary |-> <<>>,
      dtstart |-> Some(At(1, Late)), dtend |-> None, malformed |-> FALSE],
     [uid |-> "block", summary |-> SummaryNotAvailable,
      dtstart |-> Some(At(1, 0)), dtend |-> Some(At(2, 0)), malformed |-> FALSE],
     [uid |-> "undated", summary |-> SummaryReserved,
      dtstart |-> None, dtend |-> Some(At(2, 0)), malformed |-> FALSE],
     [uid |-> "broken", summary |-> SummaryReserved,
      dtstart |-> None, dtend |-> None, malformed |-> TRUE]}

DocumentPool ==
    {[kind |-> "calendar", vevents |-> vs] :
        vs \in UNION {[1..n -> VEntryPool] : n \in 0..MaxEntries}}
    \cup {[kind |-> "garbage", vevents |-> <<>>]}

ParseInit ==
    /\ tz = 0
    /\ now = At(1, 0)
    /\ document \in DocumentPool
    /\ outcome = NotParsed
    /\ events = <<>>
    /\ checkouts = <<>>
    /\ upcoming = <<>>
    /\ days = 0
    /\ stage = "document"
    /\ properties = [p \in PropertyIds |->
                        [active |-> FALSE, last_synced |-> None, sync_error |-> None]]
    /\ remote = [p \in PropertyIds |-> FeedBlank]
    /\ property_cleaners = [p \in PropertyIds |-> <<>>]
    /\ cleaning_jobs = <<>>
    /\ response = [status |-> 0]
    /\ faulted = {}
    /\ fetches = [p \in PropertyIds |-> 0]
    /\ streak = 0
    /\ changes = 0
    /\ runs = 0
    /\ failures = 0
    /\ HooksIdle

ParseICalData ==
    /\ stage = "document"
    /\ outcome' = parseICalData(document)
    /\ stage' = "parsed"
    /\ UNCHANGED <<tz, now, document, events, checkouts, upcoming, days, storeVars, hookVars>>

ParseNext == ParseICalData

ParseSpec == ParseInit /\ [][ParseNext]_vars

Spec == Init /\ [][Next]_vars

-----------------------------------------------------------------------------
(* The extractor over feeds that list the same bookings in another order *)

\* the first and the last slot of two days
BookingTimes == {At(d, slot) : d \in 0..1, slot \in {0, Late}}

\* bookings and blocks that can be told apart by their uid
BookingPool(uid) ==
    {e \in [uid : {uid}, summary : {SummaryReserved, SummaryBusy},
            start : BookingTimes, end : BookingTimes] : e.start <= e.end}

BookingSeqs ==
    UNION {{evs \in [1..n -> UNION {BookingPool(k) : k \in 1..n}] :
               \A k \in 1..n : evs[k].uid = k} : n \in 0..MaxBookings}

OrderInit ==
    /\ tz \in 0..MaxTz
    /\ now = SlotsPerDay
    /\ document = NoDocument
    /\ outcome = NotParsed
    /\ events \in BookingSeqs
    /\ checkouts = <<>>
    /\ upcoming = <<>>
    /\ days = 0
    /\ stage = "input"
    /\ properties = [p \in PropertyIds |->
                        [active |-> FALSE, last_synced |-> None, sync_error |-> None]]
    /\ remote = [p \in PropertyIds |-> FeedBlank]
    /\ property_cleaners = [p \in PropertyIds |-> <<>>]
    /\ cleaning_jobs = <<>>
    /\ response = [status |-> 0]
    /\ faulted = {}
    /\ fetches = [p \in PropertyIds |-> 0]
    /\ streak = 0
    /\ changes = 0
    /\ runs = 0
    /\ failures = 0
    /\ HooksIdle

\* the feed lists the same events in another order and is extracted again
ReorderEvents ==
    /\ stage = "extracted"
    /\ changes < MaxChanges
    /\ changes' = changes + 1
    /\ \E perm \in Permutations(DOMAIN events) :
          /\ events' = [k \in DOMAIN events |-> events[perm[k]]]
          /\ events' # events
          /\ checkouts' = extractCheckouts(events')
    /\ UNCHANGED <<tz, now, document, outcome, upcoming, days, stage, properties,
                   remote, property_cleaners, cleaning_jobs, response, faulted,
                   fetches, streak, runs, failures, hookVars>>

OrderNext == ExtractCheckouts \/ ReorderEvents

OrderSpec == OrderInit /\ [][OrderNext]_vars

-----------------------------------------------------------------------------
(* Jobs made by hand next to the jobs made by the calendar sync *)

\* new Date(dateString).toDateString() of a "YYYY-MM-DD" string: the local
\* calendar day of that date's UTC midnight
toDateString(date) == LocalDay(At(date, 0))

\* createJob of the job service: the table afterwards and the answer
createJob(jobData, db) ==
    LET isSameDayTurnaround ==
            IF jobData.checkin_date # None
            THEN toDateString(jobData.checkout_date)
                     = toDateString(jobData.checkin_date[1])
            ELSE FALSE
    IN  IF db = "property" \/ jobData.property_id \notin DOMAIN properties
        THEN [jobs |-> cleaning_jobs,
              error |-> Some([message |-> "Property not found", code |-> "NOT_FOUND"])]
        ELSE IF db = "insert"
        THEN [jobs |-> cleaning_jobs,
              error |-> Some([message |-> "insert failed", code |-> "DB"])]
        ELSE [jobs |-> Append(cleaning_jobs,
                              [property_id |-> jobData.property_id,
                               cleaner_id |-> jobData.cleaner_id,
                               checkout_date |-> jobData.checkout_date,
                               checkin_date |-> jobData.checkin_date,
                               status |-> "pending",
                               is_same_day_turnaround |-> isSameDayTurnaround]),
              error |-> None]

\* a booking that starts and ends within day 2, after the stay of
\* FeedTurnover that ends that morning
FeedDayUse ==
    Calendar(<<VEvent(SummaryReserved, Some(At(0, Late)), Some(At(2, 0))),
               VEvent(SummaryReserved, Some(At(2, 0)), Some(At(2, Late)))>>)

CreateJobInputs ==
    [property_id : {1, NumProperties + 1},
     cleaner_id : {None},
     checkout_date : {2},
     checkin_date : {None, Some(2), Some(3)}]

JobInit ==
    /\ tz \in 0..MaxTz
    /\ now = At(1, 0)
    /\ document = NoDocument
    /\ outcome = NotParsed
    /\ events = <<>>
    /\ checkouts = <<>>
    /\ upcoming = <<>>
    /\ days = 0
    /\ stage = "idle"
    /\ properties = [p \in PropertyIds |->
                        [active |-> TRUE, last_synced |-> None, sync_error |-> None]]
    /\ remote = [p \in PropertyIds |-> IF p = 1 THEN FeedDayUse ELSE FeedShifted]
    /\ property_cleaners = [p \in PropertyIds |-> CleanersOf(p)]
    /\ cleaning_jobs = <<>>
    /\ response = [status |-> 0]
    /\ faulted = {}
    /\ fetches = [p \in PropertyIds |-> 0]
    /\ streak = 0
    /\ changes = 0
    /\ runs = 0
    /\ failures = 0
    /\ HooksIdle

\* the host adds a job in the app
CreateJob ==
    /\ changes < MaxChanges
    /\ changes' = changes + 1
    /\ streak' = 0
    /\ \E jobData \in CreateJobInputs, db \in {"none", "property", "insert"} :
          cleaning_jobs' = createJob(jobData, db).jobs
    /\ UNCHANGED <<tz, now, remote, properties, property_cleaners,
                   response, faulted, fetches, runs, failures, fnVars, hookVars>>

JobNext == CalendarSync \/ CreateJob

JobSpec == JobInit /\ [][JobNext]_vars

-----------------------------------------------------------------------------
(* syncProperty step by step: the requests of overlapping passes interleave *)

MaxPasses == 2

\* two stays listed latest first
FeedUnordered ==
    Calendar(<<VEvent(SummaryReserved, Some(At(2, Late)), Some(At(3, 0))),
               VEvent(SummaryReserved, Some(At(0, Late)), Some(At(2, 0)))>>)

\* what one request to the database returns: a result, or an error while
\* the fault budget lasts
StepFaults(kind, p, i) ==
    {{}} \cup (IF failures < MaxFaults
               THEN {{[kind |-> kind, property |-> p, index |-> i]}}
               ELSE {})

\* the pass of one property up to its first existence check: the feed is
\* fetched and parsed, the checkouts extracted and filtered, the cleaners
\* looked up; a throw leaves the pass in its catch block
beginPass(p, fs) ==
    LET parsed == parseICalFromUrl(remote[p])
        thrown == IF ~parsed.ok THEN Some(parsed.error)
                  ELSE IF HasFault(fs, "cleaners", p, 0)
                  THEN Some(<<"Failed to fetch cleaners: ", "connection error">>)
                  ELSE None
    IN  [property |-> p,
         ups |-> IF thrown = None THEN upcomingCheckouts(parsed.events) ELSE <<>>,
         i |-> 1,
         pc |-> IF thrown = None THEN "check" ELSE "failed",
         assigned |-> assignedCleanerId(property_cleaners[p]),
         jobs_created |-> 0,
         success |-> FALSE,
         error |-> thrown,
         log |-> <<>>]

PassInit ==
    /\ tz \in 0..MaxTz
    /\ now = At(1, 0)
    /\ document = NoDocument
    /\ outcome = NotParsed
    /\ events = <<>>
    /\ checkouts = <<>>
    /\ upcoming = <<>>
    /\ days = 0
    /\ stage = "idle"
    /\ properties = [p \in PropertyIds |->
                        [active |-> TRUE, last_synced |-> None, sync_error |-> None]]
    /\ remote = [p \in PropertyIds |-> IF p = 1 THEN FeedUnordered ELSE FeedShifted]
    /\ property_cleaners = [p \in PropertyIds |-> CleanersOf(p)]
    /\ cleaning_jobs = <<>>
    /\ response = [status |-> 0]
    /\ faulted = {}
    /\ fetches = [p \in PropertyIds |-> 0]
    /\ streak = 0
    /\ changes = 0
    /\ runs = 0
    /\ failures = 0
    /\ HooksIdle

passIdle == <<tz, now, remote, property_cleaners, response, streak, changes, runs,
              fnVars, profiles, sms_logs, pushes, hookResponse, sms_opt_out, outbox>>

\* an invocation of the handler reaches syncProperty for a property
StartPass ==
    \E p \in PropertyIds : \E fs \in StepFaults("cleaners", p, 0) :
        LET pass == beginPass(p, fs)
        IN  /\ Len(passes) < MaxPasses
            /\ properties[p].active
            /\ passes' = Append(passes, pass)
            /\ properties' = IF pass.pc = "failed"
                             THEN [properties EXCEPT ![p].sync_error = pass.error]
                             ELSE properties
            /\ fetches' = [fetches EXCEPT ![p] = parseICalFromUrl(remote[p]).fetches]
            /\ faulted' = faulted \cup fs
            /\ failures' = failures + Cardinality(fs)
            /\ UNCHANGED <<cleaning_jobs, passIdle>>

\* the select of the existing jobs of the pass's current checkout returns
CheckStep ==
    \E n \in DOMAIN passes :
        LET pass == passes[n]
        IN  /\ pass.pc = "check"
            /\ pass.i <= Len(pass.ups)
            /\ \E fs \in StepFaults("check", pass.property, pass.i) :
                  LET checkout == pass.ups[pass.i]
                      skip == \/ HasFault(fs, "check", pass.property, pass.i)
                              \/ alreadyExists(existingJobs(cleaning_jobs,
                                                            pass.property, checkout))
                  IN  /\ passes' = [passes EXCEPT ![n] =
                              [pass EXCEPT
                                 !.log = Append(@, [op |-> "check", index |-> pass.i,
                                                    date |-> checkout.date,
                                                    checkout_date |->
                                                        checkoutDateStr(checkout)]),
                                 !.pc = IF skip THEN "check" ELSE "insert",
                                 !.i = IF skip THEN @ + 1 ELSE @]]
                      /\ faulted' = faulted \cup fs
                      /\ failures' = failures + Cardinality(fs)
            /\ UNCHANGED <<cleaning_jobs, properties, fetches, passIdle>>

\* the insert of the job of the pass's current checkout returns
InsertStep ==
    \E n \in DOMAIN passes :
        LET pass == passes[n]
        IN  /\ pass.pc = "insert"
            /\ \E fs \in StepFaults("insert", pass.property, pass.i) :
                  LET checkout == pass.ups[pass.i]
                      stored == ~HasFault(fs, "insert", pass.property, pass.i)
                  IN  /\ cleaning_jobs' =
                            IF stored
                            THEN Append(cleaning_jobs,
                                        newJob(pass.property, pass.assigned, checkout))
                            ELSE cleaning_jobs
                      /\ passes' = [passes EXCEPT ![n] =
                              [pass EXCEPT
                                 !.log = Append(@, [op |-> "insert", index |-> pass.i,
                                                    date |-> checkout.date,
                                                    checkout_date |->
                                                        checkoutDateStr(checkout)]),
                                 !.pc = "check",
                                 !.i = @ + 1,
                                 !.jobs_created = IF stored THEN @ + 1 ELSE @]]
                      /\ faulted' = faulted \cup fs
                      /\ failures' = failures + Cardinality(fs)
            /\ UNCHANGED <<properties, fetches, passIdle>>

\* the loop is over: the row of the property is updated and the pass returns
FinishPass ==
    \E n \in DOMAIN passes :
        LET pass == passes[n]
        IN  /\ pass.pc = "check"
            /\ pass.i > Len(pass.ups)
            /\ \E fs \in StepFaults("update", pass.property, 0) :
                  /\ properties' =
                        IF HasFault(fs, "update", pass.property, 0) THEN properties
                        ELSE [properties EXCEPT
                                 ![pass.property].last_synced = Some(now),
                                 ![pass.property].sync_error = None]
                  /\ faulted' = faulted \cup fs
                  /\ failures' = failures + Cardinality(fs)
            /\ passes' = [passes EXCEPT ![n] =
                             [pass EXCEPT !.pc = "done", !.success = TRUE]]
            /\ UNCHANGED <<cleaning_jobs, fetches, passIdle>>

PassNext == StartPass \/ CheckStep \/ InsertStep \/ FinishPass

PassSpec == PassInit /\ [][PassNext]_vars

-----------------------------------------------------------------------------
(* The Twilio webhook: inbound SMS from cleaners *)

WhiteSpace == {" ", "\t", "\n"}

RECURSIVE trimStart(_)
trimStart(s) ==
    IF s # <<>> /\ Head(s) \in WhiteSpace THEN trimStart(Tail(s)) ELSE s

RECURSIVE trimEnd(_)
trimEnd(s) ==
    IF s # <<>> /\ s[Len(s)] \in WhiteSpace
    THEN trimEnd(SubSeq(s, 1, Len(s) - 1)) ELSE s

\* String.prototype.trim
trim(s) == trimEnd(trimStart(s))

ConfirmKeywords ==
    {<<"y","e","s">>, <<"y">>, <<"c","o","n","f","i","r","m">>, <<"o","k">>,
     <<"o","k","a","y">>, <<"a","c","c","e","p","t">>,
     <<"c","o","n","f","i","r","m","e","d">>}

DeclineKeywords ==
    {<<"n","o">>, <<"n">>, <<"d","e","c","l","i","n","e">>,
     <<"c","a","n","c","e","l">>, <<"n","o","p","e">>,
     <<"d","e","c","l","i","n","e","d">>,
     <<"c","a","n","c","e","l","l","e","d">>}

CompleteKeywords ==
    {<<"d","o","n","e">>, <<"c","o","m","p","l","e","t","e">>,
     <<"c","o","m","p","l","e","t","e","d">>,
     <<"f","i","n","i","s","h","e","d">>, <<"f","i","n","i","s","h">>}

\* body.trim().toLowerCase() looked up in the three keyword lists
parseMessageIntent(body) ==
    LET normalizedBody == toLowerCase(trim(body))
    IN  IF normalizedBody \in ConfirmKeywords
        THEN [intent |-> "confirm", status |-> Some("confirmed"),
              timestamp_field |-> Some("confirmed_at")]
        ELSE IF normalizedBody \in DeclineKeywords
        THEN [intent |-> "decline", status |-> Some("cancelled"),
              timestamp_field |-> Some("cancelled_at")]
        ELSE IF normalizedBody \in CompleteKeywords
        THEN [intent |-> "complete", status |-> Some("completed"),
              timestamp_field |-> Some("completed_at")]
        ELSE [intent |-> "unknown", status |-> None, timestamp_field |-> None]

Digits == {"0", "1", "2", "3", "4", "5", "6", "7", "8", "9"}

\* phone.replace(/\D/g, ''), then "+1" before ten digits and "+" before any
\* other number, unless the text already starts with "+"
formatPhoneNumber(phone) ==
    LET isDigit(c) == c \in Digits
        digits == SelectSeq(phone, isDigit)
    IN  IF phone # <<>> /\ Head(phone) = "+" THEN phone
        ELSE IF Len(digits) = 10 THEN <<"+", "1">> \o digits
        ELSE <<"+">> \o digits

\* "Look for jobs in the next 30 days"
RecentJobDays == 30

\* the lookup without its far end
findRecentJobOpenEnded(jobs, cleanerId) ==
    LET today == toISODate(now)
        found == {k \in DOMAIN jobs :
                     /\ jobs[k].cleaner_id = Some(cleanerId)
                     /\ jobs[k].status \in {"pending", "confirmed"}
                     /\ jobs[k].checkout_date >= today}
    IN  {k \in found : \A m \in found : jobs[k].checkout_date <= jobs[m].checkout_date}

\* the rows the query of findRecentJob may return as its single row: status
\* pending or confirmed, checkout_date from today to thirty days on (both as
\* UTC dates), earliest checkout_date first
findRecentJob(jobs, cleanerId) ==
    LET today == toISODate(now)
        futureDateStr == toISODate(addDays(now, RecentJobDays))
        found == {k \in DOMAIN jobs :
                     /\ jobs[k].cleaner_id = Some(cleanerId)
                     /\ jobs[k].status \in {"pending", "confirmed"}
                     /\ jobs[k].checkout_date >= today
                     /\ jobs[k].checkout_date <= futureDateStr}
    IN  {k \in found : \A m \in found : jobs[k].checkout_date <= jobs[m].checkout_date}

\* the notification that lets a failed delivery escape
sendPushNotificationUncaught(delivery) ==
    [threw |-> delivery # "sent", delivered |-> delivery = "sent"]

\* sendPushNotification: a missing token returns early, a transport error
\* is caught and logged
sendPushNotification(delivery) ==
    [threw |-> FALSE, delivered |-> delivery = "sent"]

smsLog(job, phone, message, status) ==
    [cleaning_job_id |-> job, phone |-> phone, message |-> message,
     direction |-> "inbound", status |-> status]

PhoneA == <<"+","1","5","5","5","0","1","0","0","0","0","1">>
PhoneB == <<"+","1","5","5","5","0","1","0","0","0","0","2">>

\* table cleaners
Cleaners ==
    [c \in CleanerIds |->
        [name |-> IF c = "cleaner-a" THEN "Ana" ELSE "Ben",
         phone |-> IF c = "cleaner-a" THEN PhoneA ELSE PhoneB]]

FormContentType == "application/x-www-form-urlencoded"

\* the handler's outcome for a request, given which of several equally
\* early rows the job lookup returns (tie: the first or the last stored),
\* the persistence call that fails (db) and the fate of the push
\* notification (delivery)
twilioWebhook(req, tie, db, delivery) ==
    LET formattedPhone == formatPhoneNumber(req.From)
        cleaners == {c \in DOMAIN Cleaners : Cleaners[c].phone = formattedPhone}
        cleaner == CHOOSE c \in cleaners : TRUE
        parsedIntent == parseMessageIntent(req.Body)
        found == findRecentJob(cleaning_jobs, cleaner)
        job == IF tie = "first"
               THEN CHOOSE k \in found : \A m \in found : k <= m
               ELSE CHOOSE k \in found : \A m \in found : k >= m
        logged(id, status) ==
            Append(sms_logs, smsLog(id, formattedPhone, req.Body, status))
        reply(message, logs) ==
            [jobs |-> cleaning_jobs, sms_logs |-> logs, pushes |-> pushes,
             response |-> [status |-> 200, message |-> message, updated |-> {}]]
        failure ==
            reply(<<"Sorry, there was an error processing your message. ",
                    "Please contact your property manager.">>, sms_logs)
    IN  IF req.contentType # FormContentType THEN failure
        ELSE IF db = "cleaners" \/ cleaners = {}
        THEN reply(<<"We couldn't find your cleaner profile. ",
                     "Please contact your property manager.">>,
                   logged(None, "received"))
        ELSE IF parsedIntent.intent = "unknown"
        THEN reply(<<"Please reply with YES to confirm, NO to decline, ",
                     "or DONE when completed.">>,
                   logged(None, "received"))
        ELSE IF db = "lookup" \/ found = {}
        THEN reply(<<"No upcoming cleaning jobs found. Contact your property ",
                     "manager if you believe this is an error.">>,
                   logged(None, "received"))
        ELSE IF db = "update" THEN failure
        ELSE LET push == sendPushNotification(delivery)
                 stamped ==
                     [cleaning_jobs[job] EXCEPT
                         !.status = parsedIntent.status[1],
                         ![parsedIntent.timestamp_field[1]] = Some(now)]
                 name == Cleaners[cleaner].name
                 date == cleaning_jobs[job].checkout_date
                 property == PropertyName(cleaning_jobs[job].property_id)
             IN  [jobs |-> [cleaning_jobs EXCEPT ![job] = stamped],
                  sms_logs |-> logged(Some(job), "processed"),
                  pushes |-> IF push.delivered
                             THEN Append(pushes,
                                         [user |-> "host",
                                          type |-> <<"job", parsedIntent.intent>>])
                             ELSE pushes,
                  response |->
                      [status |-> 200,
                       message |->
                           IF push.threw THEN failure.response.message
                           ELSE CASE parsedIntent.intent = "confirm" ->
                                         <<"Thanks ", name, "! Your cleaning at ",
                                           property, " on ", date, " is confirmed.">>
                                  [] parsedIntent.intent = "decline" ->
                                         <<"Your decline has been noted. The ",
                                           "property manager has been notified.">>
                                  [] OTHER ->
                                         <<"Great work! Cleaning marked as ",
                                           "complete. Thanks ", name, "!">>,
                       updated |-> {job}]]

-----------------------------------------------------------------------------
(* The Stripe webhook: subscription events *)

\* propertyLimit of getSubscriptionLimits
getSubscriptionLimits(status) ==
    CASE status = "active" -> 100
      [] status = "trialing" -> 3
      [] OTHER -> 1

\* the signature header is "t=<timestamp>,v1=<hmac>": it verifies when both
\* parts are there, v1 is the HMAC of "<t>.<payload>" under the webhook
\* secret, and t is at most 300 seconds old
verifyStripeWebhook(signature) ==
    /\ signature.wellFormed
    /\ signature.v1 = "hmac-of-payload"
    /\ ~(signature.age > 300)

findUserByCustomerId(customerId) ==
    LET users == {u \in DOMAIN profiles : profiles[u].stripe_customer_id = customerId}
    IN  IF Cardinality(users) = 1 THEN Some(CHOOSE u \in users : TRUE) ELSE None

\* enforcePropertyLimits: the active properties beyond the plan's limit,
\* newest first to go, are deactivated and the host is told
enforcePropertyLimits(userId, status, rows, sent, db, delivery) ==
    LET limit == getSubscriptionLimits(status)
        active == activeProperties(rows)
        currentCount == Len(active)
        excess == {active[k] : k \in (limit + 1)..currentCount}
        push == sendPushNotification(delivery)
    IN  IF db = "count" \/ ~(currentCount > limit) \/ db = "select" \/ excess = {}
        THEN [rows |-> rows, pushes |-> sent, threw |-> FALSE]
        ELSE [rows |-> IF db = "deactivate" THEN rows
                       ELSE [p \in DOMAIN rows |->
                               IF p \in excess THEN [rows[p] EXCEPT !.active = FALSE]
                               ELSE rows[p]],
              pushes |-> IF push.delivered
                         THEN Append(sent, [user |-> userId,
                                            type |-> <<"property_limit_exceeded">>])
                         ELSE sent,
              threw |-> push.threw]

\* the cases of the handler's switch
HandledEventTypes ==
    {"customer.subscription.created", "customer.subscription.updated",
     "customer.subscription.deleted", "invoice.payment_succeeded",
     "invoice.payment_failed"}

\* the handler's outcome for a request: the tables afterwards and the
\* response
stripeWebhook(req, db, delivery) ==
    LET same(status, body) ==
            [profiles |-> profiles, rows |-> properties, pushes |-> pushes,
             response |-> [status |-> status, body |-> body]]
        received == <<"received">>
        event == req.event
        user == findUserByCustomerId(event.customer)
        push == sendPushNotification(delivery)
        status == CASE event.type = "customer.subscription.deleted" -> "canceled"
                    [] event.type = "invoice.payment_succeeded" -> "active"
                    [] event.type = "invoice.payment_failed" -> "past_due"
                    [] OTHER -> event.status
        updated == [profiles EXCEPT ![user[1]].subscription_status = status]
        enforced ==
            IF event.type \in {"customer.subscription.updated",
                               "customer.subscription.deleted"}
            THEN enforcePropertyLimits(user[1], status, properties, pushes,
                                       db, delivery)
            ELSE [rows |-> properties, pushes |-> pushes, threw |-> FALSE]
        notifies ==
            \/ event.type = "customer.subscription.created" /\ status = "active"
            \/ event.type = "customer.subscription.updated" /\ status = "canceled"
            \/ event.type = "customer.subscription.deleted"
            \/ event.type = "invoice.payment_failed"
        type == CASE event.type = "customer.subscription.created" -> "subscription_active"
                  [] event.type = "customer.subscription.updated" -> "subscription_cancelled"
                  [] event.type = "customer.subscription.deleted" -> "subscription_ended"
                  [] OTHER -> "payment_failed"
    IN  IF req.signature = None THEN same(400, <<"Missing Stripe signature">>)
        ELSE IF ~verifyStripeWebhook(req.signature[1])
        THEN same(400, <<"Invalid signature">>)
        ELSE IF event.type \notin HandledEventTypes THEN same(200, received)
        ELSE IF user = None THEN same(200, received)
        ELSE IF db = "profile" THEN same(500, <<"Internal server error">>)
        ELSE IF enforced.threw
        THEN [profiles |-> updated, rows |-> enforced.rows, pushes |-> enforced.pushes,
              response |-> [status |-> 500, body |-> <<"Internal server error">>]]
        ELSE [profiles |-> updated,
              rows |-> enforced.rows,
              pushes |-> IF notifies /\ push.delivered
                         THEN Append(enforced.pushes,
                                     [user |-> user[1], type |-> <<type>>])
                         ELSE enforced.pushes,
              response |-> IF notifies /\ push.threw
                           THEN [status |-> 500, body |-> <<"Internal server error">>]
                           ELSE [status |-> 200, body |-> received]]

-----------------------------------------------------------------------------
(* Deliveries to the webhooks *)

BodyPool ==
    {<<" ","Y","e","s"," ">>, <<"N","O">>, <<"d","o","n","e","\n">>,
     <<"y","e","s"," ","p","l","e","a","s","e">>}

\* a cleaner's number as Twilio sends it, another typed in national format,
\* and a number no cleaner has
FromPool ==
    {PhoneA,
     <<"(","5","5","5",")"," ","0","1","0","-","0","0","0","2">>,
     <<"+","1","5","5","5","0","1","0","9","9","9","9">>}

TwilioRequests ==
    {[From |-> f, Body |-> b, contentType |-> FormContentType, signature |-> s] :
        f \in FromPool, b \in BodyPool, s \in {None, Some("valid")}}
    \cup {[From |-> PhoneA, Body |-> <<"N","O">>,
           contentType |-> "application/json", signature |-> Some("valid")]}

StripeEvents ==
    {[type |-> t, customer |-> CustomerOf("host"), status |-> s] :
        t \in {"customer.subscription.created", "customer.subscription.updated"},
        s \in {"active", "canceled"}}
    \cup {[type |-> t, customer |-> CustomerOf("host"), status |-> "active"] :
            t \in {"customer.subscription.deleted", "invoice.payment_failed",
                   "charge.refunded"}}
    \cup {[type |-> "invoice.payment_succeeded", customer |-> <<"cus", "nobody">>,
           status |-> "active"]}

SignaturePool ==
    {None,
     Some([wellFormed |-> TRUE, v1 |-> "hmac-of-other", age |-> 0]),
     Some([wellFormed |-> TRUE, v1 |-> "hmac-of-payload", age |-> 301]),
     Some([wellFormed |-> TRUE, v1 |-> "hmac-of-payload", age |-> 300])}

StripeRequests == [event : StripeEvents, signature : SignaturePool]

DeliveryPool == {"sent", "no-token", "transport-error"}

\* what goes wrong while a request is handled: nothing, one persistence
\* call, or the delivery of the push notification
WhatFails(calls) ==
    {[db |-> "none", delivery |-> d] : d \in DeliveryPool}
    \cup {[db |-> c, delivery |-> "sent"] : c \in calls}

HookJob(p, cleaner, status, date) ==
    [property_id |-> p, cleaner_id |-> cleaner, checkout_date |-> date,
     checkin_date |-> None, status |-> status, is_same_day_turnaround |-> FALSE,
     confirmed_at |-> None, cancelled_at |-> None, completed_at |-> None]

\* today is day 1.  Ana: a job done today, two for tomorrow and one thirty
\* days out; Ben: a job cancelled yesterday and one 31 days out
HookJobsBusy ==
    <<HookJob(1, Some("cleaner-a"), "completed", 1),
      HookJob(2, Some("cleaner-a"), "confirmed", 2),
      HookJob(1, Some("cleaner-a"), "pending", 2),
      HookJob(1, Some("cleaner-a"), "pending", 1 + RecentJobDays),
      HookJob(2, Some("cleaner-b"), "cancelled", 0),
      HookJob(2, Some("cleaner-b"), "pending", 2 + RecentJobDays)>>

\* Ana: a job left pending yesterday; Ben: one for today; one unassigned
HookJobsSparse ==
    <<HookJob(1, Some("cleaner-a"), "pending", 0),
      HookJob(2, Some("cleaner-b"), "pending", 1),
      HookJob(1, None, "pending", 1)>>

HookInit ==
    /\ tz = 0
    /\ now = At(1, 0)
    /\ document = NoDocument
    /\ outcome = NotParsed
    /\ events = <<>>
    /\ checkouts = <<>>
    /\ upcoming = <<>>
    /\ days = 0
    /\ stage = "idle"
    /\ properties = [p \in PropertyIds |->
                        [active |-> TRUE, last_synced |-> None, sync_error |-> None]]
    /\ remote = [p \in PropertyIds |-> FeedTurnover]
    /\ property_cleaners = [p \in PropertyIds |-> CleanersOf(p)]
    /\ cleaning_jobs \in {HookJobsBusy, HookJobsSparse}
    /\ response = [status |-> 0]
    /\ faulted = {}
    /\ fetches = [p \in PropertyIds |-> 0]
    /\ streak = 0
    /\ changes = 0
    /\ runs = 0
    /\ failures = 0
    /\ HooksIdle

\* Twilio (or anyone else) posts an inbound SMS to the webhook
\* hookResponse keeps, beside the response, the request it answers and what
\* failed while it was handled
TwilioWebhook ==
    /\ runs < MaxRuns
    /\ runs' = runs + 1
    /\ \E req \in TwilioRequests, tie \in {"first", "last"},
          f \in WhatFails({"cleaners", "lookup", "update"}) :
          LET out == twilioWebhook(req, tie, f.db, f.delivery)
          IN  /\ cleaning_jobs' = out.jobs
              /\ sms_logs' = out.sms_logs
              /\ pushes' = out.pushes
              /\ hookResponse' = out.response @@
                                 [handler |-> "twilio", request |-> req, failed |-> f]
    /\ UNCHANGED <<tz, now, fnVars, properties, remote, property_cleaners, response,
                   faulted, fetches, streak, changes, failures, profiles,
                   sms_opt_out, outbox, passes>>

\* Stripe (or anyone else) posts an event to the webhook
StripeWebhook ==
    /\ runs < MaxRuns
    /\ runs' = runs + 1
    /\ \E req \in StripeRequests,
          f \in WhatFails({"profile", "count", "select", "deactivate"}) :
          LET out == stripeWebhook(req, f.db, f.delivery)
          IN  /\ profiles' = out.profiles
              /\ properties' = out.rows
              /\ pushes' = out.pushes
              /\ hookResponse' = out.response @@
                                 [handler |-> "stripe", request |-> req, failed |-> f]
    /\ UNCHANGED <<tz, now, fnVars, remote, property_cleaners, cleaning_jobs,
                   response, faulted, fetches, streak, changes, failures, sms_logs,
                   sms_opt_out, outbox, passes>>

\* a day passes
HookTick ==
    /\ changes < MaxChanges
    /\ changes' = changes + 1
    /\ now' = now + SlotsPerDay
    /\ UNCHANGED <<tz, fnVars, properties, remote, property_cleaners, cleaning_jobs,
                   response, faulted, fetches, streak, runs, failures, hookVars>>

HookNext == TwilioWebhook \/ StripeWebhook \/ HookTick

HookSpec == HookInit /\ [][HookNext]_vars

-----------------------------------------------------------------------------
(* The send-cleaning-sms function: the SMS that tells a cleaner of a job *)

\* buildSmsMessage, as the parts the text is put together from
buildSmsMessage(job) ==
    <<"Hi ", Cleaners[job.cleaner_id[1]].name, ", you have a cleaning at ",
      PropertyName(job.property_id), " on ", job.checkout_date, ".">>
    \o (IF job.is_same_day_turnaround
        THEN <<" SAME DAY TURNAROUND - Guest checks in today!">>
        ELSE <<>>)
    \o <<" Reply YES to confirm or NO to decline.">>

\* sendSms: the message is accepted by Twilio, or the call throws (the API
\* answers with an error, the network fails, the configuration is missing)
sendSms(params, twilio) ==
    IF twilio = "accepted"
    THEN [threw |-> FALSE, sid |-> <<"SM", params.to>>, status |-> "queued"]
    ELSE [threw |-> TRUE, message |-> "Failed to send SMS"]

\* the handler's outcome for a request, given Twilio's answer and the
\* persistence call that fails (db)
sendCleaningSms(req, twilio, db) ==
    LET same(status, body) ==
            [jobs |-> cleaning_jobs, sms_logs |-> sms_logs, outbox |-> outbox,
             response |-> [status |-> status, body |-> body]]
        id == req.cleaning_job_id[1]
        job == cleaning_jobs[id]
        cleaner == Cleaners[job.cleaner_id[1]]
        message == buildSmsMessage(job)
        twilioResponse == sendSms([to |-> cleaner.phone, body |-> message], twilio)
        log(status) ==
            IF db = "log" THEN sms_logs
            ELSE Append(sms_logs,
                        [cleaning_job_id |-> Some(id), phone |-> cleaner.phone,
                         message |-> message, direction |-> "outbound",
                         status |-> status])
    IN  IF req.cleaning_job_id = None
        THEN same(400, [error |-> <<"Missing cleaning_job_id in request body">>])
        ELSE IF db = "select" \/ id \notin DOMAIN cleaning_jobs
        THEN same(404, [error |-> <<"Cleaning job not found">>])
        ELSE IF job.cleaner_id = None
        THEN same(400, [error |-> <<"No cleaner assigned to this job">>])
        ELSE IF sms_opt_out[job.cleaner_id[1]]
        THEN same(200, [success |-> FALSE,
                        message |-> <<"Cleaner has opted out of SMS notifications">>])
        ELSE IF job.sms_sent_at # None
        THEN same(200, [success |-> FALSE,
                        message |-> <<"SMS already sent for this job">>,
                        sent_at |-> job.sms_sent_at])
        ELSE IF twilioResponse.threw
        THEN [jobs |-> cleaning_jobs,
              sms_logs |-> log("failed"),
              outbox |-> outbox,
              response |-> [status |-> 500,
                            body |-> [error |-> <<"Failed to send SMS: ",
                                                  twilioResponse.message>>]]]
        ELSE [jobs |-> IF db = "update" THEN cleaning_jobs
                       ELSE [cleaning_jobs EXCEPT ![id].sms_sent_at = Some(now)],
              sms_logs |-> log(twilioResponse.status),
              outbox |-> Append(outbox, [job |-> id, to |-> cleaner.phone,
                                         body |-> message]),
              response |-> [status |-> 200,
                            body |-> [success |-> TRUE,
                                      message |-> <<"SMS sent successfully">>,
                                      message_sid |-> twilioResponse.sid]]]

SmsJob(cleaner, sameDay) ==
    [property_id |-> 1, cleaner_id |-> cleaner, checkout_date |-> 2,
     checkin_date |-> None, status |-> "pending",
     is_same_day_turnaround |-> sameDay, sms_sent_at |-> None]

\* a job of each cleaner and one without a cleaner
SmsJobs ==
    <<SmsJob(Some("cleaner-a"), FALSE), SmsJob(Some("cleaner-b"), TRUE),
      SmsJob(None, FALSE)>>

\* the body names no job, a stored job, or a job that is not there
SmsRequests ==
    {[cleaning_job_id |-> id] :
        id \in {None} \cup {Some(k) : k \in 1..(Len(SmsJobs) + 1)}}

SmsInit ==
    /\ tz = 0
    /\ now = At(1, 0)
    /\ document = NoDocument
    /\ outcome = NotParsed
    /\ events = <<>>
    /\ checkouts = <<>>
    /\ upcoming = <<>>
    /\ days = 0
    /\ stage = "idle"
    /\ properties = [p \in PropertyIds |->
                        [active |-> TRUE, last_synced |-> None, sync_error |-> None]]
    /\ remote = [p \in PropertyIds |-> FeedTurnover]
    /\ property_cleaners = [p \in PropertyIds |-> CleanersOf(p)]
    /\ cleaning_jobs = SmsJobs
    /\ response = [status |-> 0]
    /\ faulted = {}
    /\ fetches = [p \in PropertyIds |-> 0]
    /\ streak = 0
    /\ changes = 0
    /\ runs = 0
    /\ failures = 0
    /\ profiles = [u \in UserIds |->
                      [stripe_customer_id |-> CustomerOf(u),
                       subscription_status |-> "trialing"]]
    /\ sms_logs = <<>>
    /\ pushes = <<>>
    /\ hookResponse = [status |-> 0]
    /\ sms_opt_out \in [CleanerIds -> BOOLEAN]
    /\ outbox = <<>>
    /\ passes = <<>>

\* the host's app asks for the SMS of a job
SendCleaningSms ==
    /\ runs < MaxRequests
    /\ runs' = runs + 1
    /\ \E req \in SmsRequests, twilio \in {"accepted", "rejected"},
          db \in {"none", "select", "log", "update"} :
          LET out == sendCleaningSms(req, twilio, db)
          IN  /\ cleaning_jobs' = out.jobs
              /\ sms_logs' = out.sms_logs
              /\ outbox' = out.outbox
              /\ hookResponse' = out.response @@
                                 [handler |-> "send-cleaning-sms", request |-> req]
    /\ UNCHANGED <<tz, now, fnVars, properties, remote, property_cleaners, response,
                   faulted, fetches, streak, changes, failures, profiles, pushes,
                   sms_opt_out, passes>>

SmsNext == SendCleaningSms

SmsSpec == SmsInit /\ [][SmsNext]_vars

-----------------------------------------------------------------------------
(* Properties of the checkout extractor and the window filter (FnSpec) *)

\* the classification rule of the calendar parser: the label, case-folded,
\* equals "busy" or contains "blocked", "unavailable" or "not available"
BlockedLabel(summary) ==
    LET folded == toLowerCase(summary)
    IN  \/ folded = StrBusy
        \/ \E sub \in {StrBlocked, StrUnavailable, StrNotAvailable} :
               includes(folded, sub)

Extracted == stage \in {"extracted", "filtered"}

Occurrences(seq, x) == Cardinality({k \in DOMAIN seq : seq[k] = x})

SourceEvents == [k \in DOMAIN checkouts |-> checkouts[k].event]

\* C5: extractCheckouts emits exactly one checkout for every non-blocked
\* event and none for a blocked event; each checkout's date is its source
\* event's end, and the checkouts are in ascending order of end.
C5_OneCheckoutPerBooking ==
    Extracted =>
        /\ \A e \in {events[k] : k \in DOMAIN events}
                   \cup {SourceEvents[k] : k \in DOMAIN SourceEvents} :
              Occurrences(SourceEvents, e) =
                  IF BlockedLabel(e.summary) THEN 0 ELSE Occurrences(events, e)
        /\ \A k \in DOMAIN checkouts : checkouts[k].date = checkouts[k].event.end
        /\ \A k \in DOMAIN checkouts :
              k < Len(checkouts) => checkouts[k].date <= checkouts[k + 1].date

\* a blocked event and two bookings given latest-first have been extracted
C5_Witness ==
    /\ stage = "extracted"
    /\ Len(events) = MaxEvents
    /\ \E i, j \in DOMAIN events :
          /\ i < j
          /\ ~BlockedLabel(events[i].summary)
          /\ ~BlockedLabel(events[j].summary)
          /\ events[i].end > events[j].end
    /\ Len(checkouts) = 2
    /\ checkouts[1].event = events[Len(events)]

\* the events that are bookings and start on the local day of date t
BookingsStartingOnDayOf(t) ==
    {k \in DOMAIN events : /\ ~BlockedLabel(events[k].summary)
                           /\ LocalDay(events[k].start) = LocalDay(t)}

\* C6: hasSameDayCheckin is true only when an event other than the
\* checkout's own source event is non-blocked and starts on the checkout's
\* calendar day.
C6_SameDayOnlyFromAnotherEvent ==
    Extracted =>
        \A k \in DOMAIN checkouts :
            LET c == checkouts[k]
                own == IF LocalDay(c.event.start) = LocalDay(c.date) THEN 1 ELSE 0
            IN  c.has_same_day_checkin =>
                    Cardinality(BookingsStartingOnDayOf(c.date)) > own

\* C7: a present nextCheckinDate is not earlier than the start of the
\* checkout's calendar day and no other booking starts between the checkout
\* date and it; it is absent only when no other booking starts on or after
\* the checkout's day.
C7_NextCheckinIsNearestLater ==
    Extracted =>
        \A k \in DOMAIN checkouts :
            LET c == checkouts[k]
                own == IF LocalDay(c.event.start) >= LocalDay(c.date) THEN 1 ELSE 0
                laterStarts == {j \in DOMAIN events :
                                   /\ ~BlockedLabel(events[j].summary)
                                   /\ LocalDay(events[j].start) >= LocalDay(c.date)}
            IN  IF c.next_checkin_date # None
                THEN /\ LocalDay(c.next_checkin_date[1]) >= LocalDay(c.date)
                     /\ ~\E j \in DOMAIN events :
                            /\ ~BlockedLabel(events[j].summary)
                            /\ events[j].start > c.date
                            /\ events[j].start < c.next_checkin_date[1]
                ELSE Cardinality(laterStarts) <= own

InWindow(c) ==
    /\ LocalDay(now) <= LocalDay(c.date)
    /\ LocalDay(c.date) <= LocalDay(now) + days

\* C8: filterUpcomingCheckouts(checkouts, days) returns exactly the
\* checkouts whose calendar day d satisfies today <= d <= today + days, in
\* their input order.
C8_WindowIsInclusive ==
    stage = "filtered" => upcoming = SelectSeq(checkouts, InWindow)

\* a checkout on the last day of the window was kept and one on the day
\* after it was dropped
C8_Witness ==
    /\ stage = "filtered"
    /\ days <= MaxHorizon
    /\ \E k \in DOMAIN upcoming :
          LocalDay(upcoming[k].date) = LocalDay(now) + days
    /\ \E k \in DOMAIN checkouts :
          LocalDay(checkouts[k].date) = LocalDay(now) + days + 1
    /\ Len(upcoming) < Len(checkouts)

-----------------------------------------------------------------------------
(* Properties of the job reconciler and the calendar-sync handler (Spec) *)

\* a step that is one run of the calendar-sync handler
RunStep == runs' = runs + 1

\* the per-property results a response carries
Details(resp) ==
    IF resp.status = 200 /\ "details" \in DOMAIN resp.body
    THEN resp.body.details ELSE <<>>

ResultsOf(resp, p) ==
    {Details(resp)[k] : k \in {m \in DOMAIN Details(resp) :
                                  Details(resp)[m].property_id = p}}

JobsOf(jobs, p) ==
    LET mine(j) == j.property_id = p IN SelectSeq(jobs, mine)

\* the calendar date (UTC) of a timestamp
CalendarDate(t) == t \div SlotsPerDay

JobsOn(jobs, p, date) ==
    {k \in DOMAIN jobs : jobs[k].property_id = p /\ jobs[k].checkout_date = date}

\* the checkouts a pass of property p considers, given what its URL serves now
Considered(p) ==
    LET parsed == parseICalFromUrl(remote[p])
    IN  IF parsed.ok THEN upcomingCheckouts(parsed.events) ELSE <<>>

JobFaulted ==
    {f.property : f \in {g \in faulted : g.kind \in {"cleaners", "check", "insert"}}}

C2_NoDuplicateJobKeys ==
    \A i, j \in DOMAIN cleaning_jobs :
        (/\ i < j
         /\ cleaning_jobs[i].property_id = cleaning_jobs[j].property_id)
            => cleaning_jobs[i].checkout_date # cleaning_jobs[j].checkout_date

\* a feed in which two bookings end on the same date has been synced and
\* that date has its job
C2_Witness ==
    /\ streak >= 1
    /\ \E p \in PropertyIds :
          /\ \E r \in ResultsOf(response, p) : r.success
          /\ \E i, j \in DOMAIN Considered(p) :
                /\ i < j
                /\ CalendarDate(Considered(p)[i].date)
                       = CalendarDate(Considered(p)[j].date)
                /\ JobsOn(cleaning_jobs, p,
                          CalendarDate(Considered(p)[i].date)) # {}

\* C3: a checkout on a calendar date for which the property already has a
\* job is never materialised, whatever its time of day.
C3_ExistingDateNeverMaterialised ==
    [][RunStep =>
          \A p \in PropertyIds :
              \A k \in DOMAIN Considered(p) :
                  LET date == CalendarDate(Considered(p)[k].date)
                  IN  JobsOn(cleaning_jobs, p, date) # {} =>
                          JobsOn(cleaning_jobs', p, date)
                              = JobsOn(cleaning_jobs, p, date)]_vars

\* a pass has just skipped an afternoon checkout whose date already had a
\* job created from an earlier version of the feed
C3_Witness ==
    /\ streak >= 1
    /\ \E p \in PropertyIds :
          /\ \E r \in ResultsOf(response, p) : r.success
          /\ \E k \in DOMAIN Considered(p) :
                LET c == Considered(p)[k]
                    on == JobsOn(cleaning_jobs, p, CalendarDate(c.date))
                IN  /\ c.date % SlotsPerDay # 0
                    /\ Cardinality(on) = 1
                    /\ \A m \in on :
                          cleaning_jobs[m].is_same_day_turnaround
                              # c.has_same_day_checkin

\* C4: a sync pass never updates or deletes an existing job.
C4_PassIsAdditiveOnly ==
    [][RunStep =>
          /\ Len(cleaning_jobs') >= Len(cleaning_jobs)
          /\ \A k \in DOMAIN cleaning_jobs : cleaning_jobs'[k] = cleaning_jobs[k]]_vars

\* a job reassigned by hand has survived a pass whose feed implies other
\* values for its date
C4_Witness ==
    /\ streak >= 1
    /\ \E m \in DOMAIN cleaning_jobs :
          LET job == cleaning_jobs[m]
              p == job.property_id
          IN  /\ job.cleaner_id = Some("cleaner-z")
              /\ \E r \in ResultsOf(response, p) : r.success
              /\ \E k \in DOMAIN Considered(p) :
                    /\ CalendarDate(Considered(p)[k].date) = job.checkout_date
                    /\ Considered(p)[k].has_same_day_checkin
                           # job.is_same_day_turnaround

\* the active properties without property p
Without(ids, p) == LET other(q) == q # p IN SelectSeq(ids, other)

\* the pass of property p fails at the fetch or the parse
PipelineFails(p) == ~parseICalFromUrl(remote[p]).ok

\* C9: when one property's pipeline fails, the run still processes every
\* other active property, with the same results and created jobs as if the
\* failing property were absent, and returns a summary.
C9_FailureIsIsolated ==
    [][RunStep =>
          LET fs == faulted'
          IN  LET ids == activeProperties(properties)
                  ran == runSync(ids, fs, cleaning_jobs, properties)
              IN  (/\ ~HasFault(fs, "properties", 0, 0)
                   /\ ran.jobs = cleaning_jobs'
                   /\ ran.rows = properties'
                   /\ ran.response = response') =>
                      \A k \in DOMAIN ids :
                          PipelineFails(ids[k]) =>
                              LET alone == runSync(Without(ids, ids[k]), fs,
                                                   cleaning_jobs, properties)
                                  notK(r) == r.property_id # ids[k]
                              IN  /\ response'.status = 200
                                  /\ "details" \in DOMAIN response'.body
                                  /\ SelectSeq(response'.body.details, notK)
                                         = Details(alone.response)
                                  /\ cleaning_jobs' = alone.jobs
                                  /\ \A q \in PropertyIds \ {ids[k]} :
                                        properties'[q] = alone.rows[q]]_vars

\* a run in which the first property failed at its feed and a later one
\* had its jobs created
C9_Witness ==
    /\ streak >= 1
    /\ \E i, j \in DOMAIN Details(response) :
          /\ i < j
          /\ ~Details(response)[i].success
          /\ PipelineFails(Details(response)[i].property_id)
          /\ Details(response)[j].success
          /\ Details(response)[j].jobs_created > 0

C11_MarkerFollowsOutcome ==
    [][RunStep =>
          \A k \in DOMAIN Details(response') :
              LET r == Details(response')[k]
                  p == r.property_id
              IN  IF r.success
                  THEN /\ properties'[p].last_synced = Some(now)
                       /\ properties'[p].sync_error = None
                  ELSE /\ properties'[p].sync_error = Some(r.error)
                       /\ properties'[p].last_synced = properties[p].last_synced]_vars

\* the insert for checkout i of property p was issued in the step and
\* returned an error
InsertFailedAt(p, i) ==
    LET cs == Considered(p)
    IN  /\ [kind |-> "insert", property |-> p, index |-> i] \in faulted'
        /\ ~HasFault(faulted', "properties", 0, 0)
        /\ ~HasFault(faulted', "cleaners", p, 0)
        /\ ~HasFault(faulted', "check", p, i)
        /\ properties[p].active
        /\ i \in DOMAIN cs
        /\ JobsOn(cleaning_jobs, p, CalendarDate(cs[i].date)) = {}
        /\ \A k \in 1..(i - 1) : CalendarDate(cs[k].date) # CalendarDate(cs[i].date)

\* C12: when storing the job of one checkout fails, that checkout alone is
\* skipped: every other new checkout of the property is still attempted in
\* the same pass, and the property is reported successful with jobs_created
\* counting only the jobs that were stored.
C12_InsertFailureSkipsOnlyThatCheckout ==
    [][RunStep =>
          \A p \in PropertyIds :
              LET cs == Considered(p)
              IN  \A i \in DOMAIN cs :
                      InsertFailedAt(p, i) =>
                          /\ \A r \in ResultsOf(response', p) :
                                /\ r.success
                                /\ r.jobs_created
                                       = Len(JobsOf(cleaning_jobs', p))
                                           - Len(JobsOf(cleaning_jobs, p))
                          /\ ResultsOf(response', p) # {}
                          /\ \A k \in DOMAIN cs \ {i} :
                                (/\ ~HasFault(faulted', "check", p, k)
                                 /\ ~HasFault(faulted', "insert", p, k)) =>
                                    JobsOn(cleaning_jobs', p,
                                           CalendarDate(cs[k].date)) # {}
                          /\ (\A k \in DOMAIN cs \ {i} :
                                 CalendarDate(cs[k].date) # CalendarDate(cs[i].date)) =>
                                    JobsOn(cleaning_jobs', p,
                                           CalendarDate(cs[i].date)) = {}]_vars

\* a pass in which the insert for the first checkout failed and the job of
\* a later checkout of the same property was stored
C12_Witness ==
    /\ streak >= 1
    /\ \E f \in faulted :
          /\ f.kind = "insert"
          /\ f.index = 1
          /\ Len(Considered(f.property)) >= 2
          /\ \E r \in ResultsOf(response, f.property) :
                r.success /\ r.jobs_created = 1
          /\ Len(JobsOf(cleaning_jobs, f.property)) = 1

\* the cleaner a new job of property p is to carry
ExpectedCleaner(p) ==
    LET rows == property_cleaners[p]
    IN  IF \E k \in DOMAIN rows : rows[k].is_primary
        THEN Some(rows[CHOOSE k \in DOMAIN rows :
                         /\ rows[k].is_primary
                         /\ \A m \in 1..(k - 1) : ~rows[m].is_primary].cleaner_id)
        ELSE IF rows # <<>> THEN Some(Head(rows).cleaner_id)
        ELSE None

\* the jobs the step has added to the table
CreatedInStep == {m \in DOMAIN cleaning_jobs' : m > Len(cleaning_jobs)}

\* C13: every job a pass creates carries the property's id, status
\* pending, the date of one of the property's upcoming checkouts, that
\* checkout's next check-in date (none when absent) and same-day flag, and
\* as cleaner the primary cleaner of the property, else the first
\* configured one, else none.
C13_CreatedJobCarriesCheckout ==
    [][RunStep =>
          \A m \in CreatedInStep :
              LET job == cleaning_jobs'[m]
                  p == job.property_id
                  cs == IF p \in PropertyIds THEN Considered(p) ELSE <<>>
              IN  /\ p \in PropertyIds
                  /\ properties[p].active
                  /\ job.status = "pending"
                  /\ job.cleaner_id = ExpectedCleaner(p)
                  /\ \E k \in DOMAIN cs :
                        /\ job.checkout_date = CalendarDate(cs[k].date)
                        /\ job.is_same_day_turnaround = cs[k].has_same_day_checkin
                        /\ IF cs[k].next_checkin_date = None
                           THEN job.checkin_date = None
                           ELSE job.checkin_date
                                  = Some(CalendarDate(cs[k].next_checkin_date[1]))]_vars

\* the table holds a pending job without a cleaner, one given the only,
\* non-primary cleaner of its property and one given a primary cleaner, one
\* of them a same-day turnaround with its check-in date
C13_Witness ==
    /\ streak >= 1
    /\ \E a, b \in DOMAIN cleaning_jobs :
          /\ cleaning_jobs[a].cleaner_id = None
          /\ cleaning_jobs[a].status = "pending"
          /\ property_cleaners[cleaning_jobs[a].property_id] = <<>>
          /\ cleaning_jobs[b].cleaner_id = Some("cleaner-b")
          /\ cleaning_jobs[b].is_same_day_turnaround
          /\ cleaning_jobs[b].checkin_date # None

\* C14: when the overall timeout of a run is exceeded, the passes still in
\* flight are abandoned and reported as failed with a timeout error, the
\* results of the passes already completed are kept, and the run returns
\* its summary.
C14_TimeoutAbandonsInFlight ==
    [][RunStep =>
          \A p \in PropertyIds :
              (/\ HasFault(faulted', "stall", p, 0)
               /\ properties[p].active
               /\ ~HasFault(faulted', "properties", 0, 0)) =>
                  /\ response'.status = 200
                  /\ ResultsOf(response', p) # {}
                  /\ \A r \in ResultsOf(response', p) :
                        /\ ~r.success
                        /\ "error" \in DOMAIN r
                        /\ r.error = <<"Sync timed out">>
                  /\ JobsOf(cleaning_jobs', p) = JobsOf(cleaning_jobs, p)]_vars

\* what the calendar URL of property p serves is a non-success status or
\* an empty or whitespace-only body
FetchUnusable(p) ==
    \/ remote[p].status < 200
    \/ remote[p].status > 299
    \/ remote[p].body.kind \in {"empty", "blank"}

\* C15: a fetch that returns a non-success status, or an empty or
\* whitespace-only body, fails the property's pass with an error carrying
\* the status (or the empty-feed message); the fetch is made exactly once
\* in the pass and the failed pass creates no job.
C15_UnusableFetchFailsPassOnce ==
    [][RunStep =>
          \A p \in PropertyIds :
              (/\ properties[p].active
               /\ ~HasFault(faulted', "properties", 0, 0)
               /\ FetchUnusable(p)) =>
                  /\ ResultsOf(response', p) # {}
                  /\ \A r \in ResultsOf(response', p) :
                        /\ ~r.success
                        /\ r.jobs_created = 0
                        /\ IF remote[p].status < 200 \/ remote[p].status > 299
                           THEN /\ Len(r.error) = 4
                                /\ r.error[1] = "Failed to fetch iCal: "
                                /\ r.error[2] = remote[p].status
                                /\ r.error[4] = remote[p].statusText
                           ELSE r.error = <<"iCal data is empty">>
                  /\ fetches'[p] = 1
                  /\ JobsOf(cleaning_jobs', p) = JobsOf(cleaning_jobs, p)]_vars

\* one run has failed a property on a 404 and another on an empty body,
\* each after a single fetch
C15_Witness ==
    /\ streak >= 1
    /\ \E p, q \in PropertyIds :
          /\ remote[p] = FeedNotFound
          /\ remote[q] \in {FeedEmpty, FeedBlank}
          /\ fetches[p] = 1
          /\ fetches[q] = 1
          /\ \E r \in ResultsOf(response, p) : ~r.success /\ r.error[2] = 404
          /\ \E r \in ResultsOf(response, q) :
                ~r.success /\ r.error = <<"iCal data is empty">>

Parsed == stage = "parsed"

\* an entry that can be read and has a start time
WellFormed(v) == ~v.malformed /\ v.dtstart # None

\* the position in the document of its n-th well-formed entry
NthWellFormed(n) ==
    CHOOSE k \in DOMAIN document.vevents :
        /\ WellFormed(document.vevents[k])
        /\ Cardinality({m \in 1..k : WellFormed(document.vevents[m])}) = n

\* C16: parseICalData skips an entry that fails to parse or lacks a start
\* time and returns every other entry in feed order: a document with n
\* well-formed entries and any number of broken ones yields exactly n
\* events and no error; only an unparsable document raises a parse error.
C16_BrokenEntriesAreSkipped ==
    Parsed =>
        IF document.kind = "calendar"
        THEN /\ outcome.ok
             /\ Len(outcome.events)
                    = Cardinality({k \in DOMAIN document.vevents :
                                      WellFormed(document.vevents[k])})
             /\ \A n \in DOMAIN outcome.events :
                    LET v == document.vevents[NthWellFormed(n)]
                    IN  /\ outcome.events[n].uid = v.uid
                        /\ outcome.events[n].start = v.dtstart[1]
        ELSE /\ ~outcome.ok
             /\ outcome.error = <<"Failed to parse iCal data">>

\* a document with an unusable entry between two different well-formed
\* ones has been parsed into the well-formed ones, the first still first
C16_Witness ==
    /\ Parsed
    /\ Len(document.vevents) = MaxEntries
    /\ WellFormed(document.vevents[1])
    /\ \E k \in 2..(MaxEntries - 1) : ~WellFormed(document.vevents[k])
    /\ WellFormed(document.vevents[MaxEntries])
    /\ document.vevents[1].uid # document.vevents[MaxEntries].uid
    /\ Len(outcome.events) = MaxEntries - 1
    /\ outcome.events[1].uid = document.vevents[1].uid

-----------------------------------------------------------------------------
(* Properties of the webhooks (HookSpec) *)

\* the step is the handling of an inbound SMS
SmsHandled == runs' = runs + 1 /\ hookResponse'.handler = "twilio"

\* the cleaners whose stored number is the sender's
SenderOf(req) ==
    {c \in DOMAIN Cleaners : Cleaners[c].phone = formatPhoneNumber(req.From)}

\* the cleaner's jobs from today on that are still pending or confirmed
UpcomingOpenJobs(c) ==
    {k \in DOMAIN cleaning_jobs :
        /\ cleaning_jobs[k].cleaner_id = Some(c)
        /\ cleaning_jobs[k].status \in {"pending", "confirmed"}
        /\ cleaning_jobs[k].checkout_date >= toISODate(now)}

\* those of them at most n days ahead
WithinDays(S, n) ==
    {k \in S : cleaning_jobs[k].checkout_date <= toISODate(now) + n}

EarliestOf(S) ==
    {k \in S : \A m \in S :
        cleaning_jobs[k].checkout_date <= cleaning_jobs[m].checkout_date}

\* what every inbound SMS leaves alone: the rows the handler did not
\* update, and every completed or cancelled job
SmsLeavesOthersAlone ==
    /\ Len(cleaning_jobs') = Len(cleaning_jobs)
    /\ \A k \in DOMAIN cleaning_jobs :
          (k \notin hookResponse'.updated
             \/ cleaning_jobs[k].status \in {"completed", "cancelled"}) =>
              cleaning_jobs'[k] = cleaning_jobs[k]

\* the reply updates exactly one of the rows of target, to the status the
\* keyword stands for and stamped with the time of the reply, and none when
\* target is empty
SmsUpdatesOneOf(target, intent) ==
    IF target = {} THEN hookResponse'.updated = {}
    ELSE \E k \in target :
            /\ hookResponse'.updated = {k}
            /\ cleaning_jobs'[k].status = intent.status[1]
            /\ cleaning_jobs'[k][intent.timestamp_field[1]] = Some(now)

\* C17 as stated: a recognised reply (a YES, NO or DONE keyword) from a
\* known cleaner changes exactly one job, the cleaner's earliest upcoming
\* job whose status is pending or confirmed, setting it to confirmed,
\* cancelled or completed respectively; a completed or cancelled job is
\* never modified by an inbound SMS, and an unrecognised message or an
\* unknown sender changes no job.  (Read for requests handled without a
\* failing database call.)
C17_ReplyChangesEarliestUpcoming ==
    [][SmsHandled =>
        LET req == hookResponse'.request
            senders == SenderOf(req)
            status == parseMessageIntent(req.Body).status
        IN  /\ SmsLeavesOthersAlone
            /\ (senders = {} \/ status = None) => hookResponse'.updated = {}
            /\ (/\ req.contentType = FormContentType
                /\ hookResponse'.failed.db = "none"
                /\ senders # {}
                /\ status # None) =>
                   \A c \in senders :
                       SmsUpdatesOneOf(EarliestOf(UpcomingOpenJobs(c)),
                                       parseMessageIntent(req.Body))
      ]_vars

\* C17 as amended: a recognised reply from a known cleaner, when the job
\* lookup and the update succeed, changes exactly one job: the cleaner's
\* earliest job with status pending or confirmed whose checkout date lies
\* from today to 30 days ahead (as UTC dates), set to confirmed, cancelled
\* or completed respectively; with no such job in those 30 days, or when
\* the lookup or the update fails, no job is changed.  A completed or
\* cancelled job is never modified by an inbound SMS, and an unrecognised
\* message or an unknown sender changes no job.
C17_ReplyChangesEarliestWithin30Days ==
    [][SmsHandled =>
        LET req == hookResponse'.request
            senders == SenderOf(req)
            status == parseMessageIntent(req.Body).status
            handled == /\ req.contentType = FormContentType
                       /\ hookResponse'.failed.db = "none"
        IN  /\ SmsLeavesOthersAlone
            /\ (senders = {} \/ status = None \/ ~handled) =>
                   hookResponse'.updated = {}
            /\ (handled /\ senders # {} /\ status # None) =>
                   \A c \in senders :
                       SmsUpdatesOneOf(
                           EarliestOf(WithinDays(UpcomingOpenJobs(c), 30)),
                           parseMessageIntent(req.Body))
      ]_vars

\* a NO has cancelled the earlier of a cleaner's open jobs at this instant
\* and left a later pending one of the same cleaner as it was
C17_Witness ==
    /\ runs > 0
    /\ hookResponse.handler = "twilio"
    /\ \E k \in hookResponse.updated, m \in DOMAIN cleaning_jobs :
          /\ cleaning_jobs[k].status = "cancelled"
          /\ cleaning_jobs[k].cancelled_at = Some(now)
          /\ cleaning_jobs[m].cleaner_id = cleaning_jobs[k].cleaner_id
          /\ cleaning_jobs[m].status = "pending"
          /\ cleaning_jobs[m].checkout_date > cleaning_jobs[k].checkout_date

\* the request carries no signature, or one that does not verify: for
\* Stripe the HMAC of the payload, at most 300 seconds old
Unverified(r) ==
    \/ r.request.signature = None
    \/ /\ r.handler = "stripe"
       /\ LET signature == r.request.signature[1]
          IN  ~(/\ signature.wellFormed
                /\ signature.v1 = "hmac-of-payload"
                /\ signature.age <= 300)

\* C18: both webhooks verify the sender's signature before acting: a Stripe
\* or Twilio webhook request whose signature is missing or does not verify
\* changes no persisted state (no subscription status, property activation,
\* job status or SMS log is written).
C18_UnverifiedRequestChangesNothing ==
    [][(runs' = runs + 1 /\ Unverified(hookResponse')) =>
          UNCHANGED <<profiles, properties, cleaning_jobs, sms_logs>>]_vars

\* the subscription status an event leaves the customer with
StatusAfter(event) ==
    CASE event.type = "customer.subscription.deleted" -> "canceled"
      [] event.type = "invoice.payment_succeeded" -> "active"
      [] event.type = "invoice.payment_failed" -> "past_due"
      [] OTHER -> event.status

ActiveCount(rows) == Cardinality({p \in DOMAIN rows : rows[p].active})

\* C19: a failure while delivering a push notification (no push token,
\* transport error) is swallowed: the request is answered as if the
\* notification had been sent, and the state changes of the operation are
\* persisted: the job update and the SMS log of a reply, the subscription
\* status of an event, the deactivation of the properties over the plan's
\* limit.
C19_PushFailureIsSwallowed ==
    [][(runs' = runs + 1 /\ hookResponse'.failed.delivery # "sent") =>
        LET r == hookResponse'
            req == r.request
        IN  /\ pushes' = pushes
            /\ r.handler = "twilio" =>
                  LET senders == SenderOf(req)
                      status == parseMessageIntent(req.Body).status
                  IN  (/\ req.contentType = FormContentType
                       /\ senders # {}
                       /\ status # None
                       /\ \E c \in senders :
                             WithinDays(UpcomingOpenJobs(c), 30) # {}) =>
                          /\ r.updated # {}
                          /\ \A k \in r.updated :
                                cleaning_jobs'[k].status = status[1]
                          /\ Len(sms_logs') = Len(sms_logs) + 1
                          /\ sms_logs'[Len(sms_logs')].status = "processed"
                          /\ Head(r.message) \in {"Thanks ", "Great work! Cleaning marked as ",
                                                  "Your decline has been noted. The "}
            /\ (r.handler = "stripe" /\ ~Unverified(r)) =>
                  LET event == req.event
                      users == {u \in DOMAIN profiles :
                                   profiles[u].stripe_customer_id = event.customer}
                  IN  /\ r.status = 200
                      /\ event.type \in HandledEventTypes =>
                            \A u \in users :
                                /\ profiles'[u].subscription_status = StatusAfter(event)
                                /\ event.type \in {"customer.subscription.updated",
                                                   "customer.subscription.deleted"} =>
                                      ActiveCount(properties') <=
                                          getSubscriptionLimits(StatusAfter(event))
      ]_vars

\* the subscription has ended, the notifications could not be delivered,
\* and yet the event was acknowledged, the status stored and the newest
\* property deactivated
C19_Witness ==
    /\ runs > 0
    /\ hookResponse.handler = "stripe"
    /\ hookResponse.failed.delivery = "transport-error"
    /\ hookResponse.request.event.type = "customer.subscription.deleted"
    /\ hookResponse.status = 200
    /\ profiles["host"].subscription_status = "canceled"
    /\ properties[1].active
    /\ ~properties[NumProperties].active
    /\ pushes = <<>>

-----------------------------------------------------------------------------
(* Properties of the extractor over reordered feeds (OrderSpec) *)

\* the position in the end-sorted events of the event with this uid
PositionOf(sorted, uid) == CHOOSE i \in DOMAIN sorted : sorted[i].uid = uid

\* the positions after i that hold a booking
BookingsAfter(sorted, i) ==
    {j \in (i + 1)..Len(sorted) : ~BlockedLabel(sorted[j].summary)}

\* C21: for the checkout produced from position i of the end-sorted event
\* sequence, nextCheckinDate is the start of the lowest-positioned
\* non-blocked event at a position j > i, and is absent iff every event
\* after position i is blocked or there is none; blocked events are
\* skipped by the lookahead and never supply the next check-in.
C21_NextCheckinIsFirstLaterBooking ==
    stage = "extracted" =>
        LET sorted == sortedEvents(events)
        IN  \A k \in DOMAIN checkouts :
                LET i == PositionOf(sorted, checkouts[k].event.uid)
                    later == BookingsAfter(sorted, i)
                IN  /\ (checkouts[k].next_checkin_date = None) <=> (later = {})
                    /\ later # {} =>
                          \E j \in later :
                              /\ \A m \in later : j <= m
                              /\ checkouts[k].next_checkin_date = Some(sorted[j].start)

\* a booking followed by a block and then by another booking, which starts
\* at another time than the block: the first checkout looks past the block,
\* the last has no next check-in
C21_Witness ==
    /\ stage = "extracted"
    /\ Len(events) = 3
    /\ Len(checkouts) = 2
    /\ LET sorted == sortedEvents(events)
       IN  /\ BlockedLabel(sorted[2].summary)
           /\ sorted[2].start # sorted[3].start
           /\ checkouts[1].event = sorted[1]
           /\ checkouts[1].next_checkin_date = Some(sorted[3].start)
           /\ checkouts[2].next_checkin_date = None

\* what a checkout says of its event apart from the lookahead
Triples(cs) ==
    {<<cs[k].date, cs[k].event, cs[k].has_same_day_checkin>> : k \in DOMAIN cs}

DistinctEnds(evs) ==
    \A i, j \in DOMAIN evs : i # j => evs[i].end # evs[j].end

\* C24: reordering the input events changes the output of extractCheckouts
\* only through ties: when all end timestamps are distinct the output is
\* the same for every permutation of the input, and when ends tie the set
\* of (date, source event, hasSameDayCheckin) triples is still the same;
\* only nextCheckinDate and the relative order of the tied checkouts may
\* differ.
C24_ReorderingActsOnlyThroughTies ==
    [][(stage = "extracted" /\ events' # events) =>
          /\ DistinctEnds(events) => checkouts' = checkouts
          /\ Len(checkouts') = Len(checkouts)
          /\ Triples(checkouts') = Triples(checkouts)
          /\ \A k \in DOMAIN checkouts :
                checkouts'[k].date = checkouts[k].date
      ]_vars

\* a reordered feed of three events, two bookings of which end together:
\* the two checkouts come out in the order the feed now lists them, and
\* with different next check-ins
C24_Witness ==
    /\ stage = "extracted"
    /\ changes > 0
    /\ Len(events) = 3
    /\ \E k \in DOMAIN checkouts :
          /\ k + 1 \in DOMAIN checkouts
          /\ checkouts[k].date = checkouts[k + 1].date
          /\ checkouts[k].event.uid > checkouts[k + 1].event.uid
          /\ checkouts[k].next_checkin_date # checkouts[k + 1].next_checkin_date

-----------------------------------------------------------------------------
(* The blocked classification at its use sites (FnSpec) *)

\* labels around the rule: other cases, a word inside a longer label,
\* "busy" with something after it, and the empty label
LabelPool ==
    SummaryPool \cup
    {<<"B","L","O","C","K","E","D">>,
     <<"(","U","n","a","v","a","i","l","a","b","l","e",")">>,
     <<"b","u","s","y"," ">>,
     <<"B","U","S","Y">>,
     <<>>}

Labelled(label) == [uid |-> "u", summary |-> label, start |-> 0, end |-> 0]

\* C25: the blocked classification (label lower-cased equals "busy", or
\* contains "blocked", "unavailable" or "not available") gives the same
\* verdict for every label at all three use sites, the checkout skip, the
\* same-day scan and the next-check-in lookahead, in the edge function and
\* in the client copy: an event skipped as blocked is never counted as a
\* same-day check-in nor chosen as the next check-in.
C25_BlockedVerdictsAgree ==
    /\ stage = "input" =>
        \A label \in LabelPool \cup {events[k].summary : k \in DOMAIN events} :
          LET e == Labelled(label)
          IN  /\ isBlocked(e) <=> BlockedLabel(label)
              /\ isBlockedSameDay(e) <=> isBlocked(e)
              /\ isNextBlocked(e) <=> isBlocked(e)
              /\ clientIsBlocked(e) <=> isBlocked(e)
              /\ clientIsBlockedSameDay(e) <=> isBlocked(e)
              /\ clientIsNextBlocked(e) <=> isBlocked(e)
    /\ Extracted =>
          LET sorted == sortedEvents(events)
              skipped == {j \in DOMAIN sorted : isBlocked(sorted[j])}
              kept == Ascending(DOMAIN sorted \ skipped)
          IN  /\ Len(checkouts) = Len(kept)
              /\ \A k \in DOMAIN checkouts :
                    LET day == LocalDay(checkouts[k].date)
                        later == {j \in DOMAIN sorted \ skipped : j > kept[k]}
                    IN  /\ checkouts[k].has_same_day_checkin =>
                              \E j \in DOMAIN sorted \ skipped :
                                  LocalDay(sorted[j].start) = day
                        /\ checkouts[k].next_checkin_date # None =>
                              \E j \in later :
                                  sorted[j].start = checkouts[k].next_checkin_date[1]
                        /\ later = {} => checkouts[k].next_checkin_date = None

\* a booking followed by a "Busy" entry that starts on the day the booking
\* ends: the entry yields no checkout, no same-day flag and no next check-in
C25_Witness ==
    /\ stage = "extracted"
    /\ Len(events) = 2
    /\ events[2].summary = SummaryBusy
    /\ events[1].end <= events[2].end
    /\ LocalDay(events[2].start) = LocalDay(events[1].end)
    /\ LocalDay(events[1].start) < LocalDay(events[1].end)
    /\ Len(checkouts) = 1
    /\ checkouts[1].event = events[1]
    /\ ~checkouts[1].has_same_day_checkin
    /\ checkouts[1].next_checkin_date = None

-----------------------------------------------------------------------------
(* Properties of the send-cleaning-sms function (SmsSpec) *)

\* the messages Twilio has accepted for a job
SentFor(box, id) == {k \in DOMAIN box : box[k].job = id}

\* C26: across any sequence of send-cleaning-sms requests handled one after
\* another, an SMS is sent for a job only if the job has an assigned
\* cleaner who has not opted out and no SMS was already recorded as sent
\* for it; after one successful send the job's sms_sent_at is set, so at
\* most one SMS is ever delivered per job, while a failed send leaves
\* sms_sent_at unset.
C26_AtMostOneSmsPerJob ==
    [][runs' = runs + 1 =>
        /\ Len(outbox') \in {Len(outbox), Len(outbox) + 1}
        /\ Len(outbox') = Len(outbox) => cleaning_jobs' = cleaning_jobs
        /\ Len(outbox') = Len(outbox) + 1 =>
              LET id == outbox'[Len(outbox')].job
              IN  /\ cleaning_jobs[id].cleaner_id # None
                  /\ ~sms_opt_out[cleaning_jobs[id].cleaner_id[1]]
                  /\ cleaning_jobs[id].sms_sent_at = None
                  /\ cleaning_jobs'[id].sms_sent_at # None
        /\ \A id \in DOMAIN cleaning_jobs :
              Cardinality(SentFor(outbox', id)) <= 1
      ]_vars

-----------------------------------------------------------------------------
(* Successive replies (HookSpec) *)

\* C27: a YES reply is never absorbed by an already-confirmed job while the
\* cleaner still has a pending upcoming job: the job a YES updates is a
\* pending one whenever the cleaner has a pending job from today to 30 days
\* ahead, so that two successive YES replies of a cleaner with two upcoming
\* pending jobs leave both confirmed.
C27_YesIsNotAbsorbedByConfirmedJob ==
    [][SmsHandled =>
        LET req == hookResponse'.request
            reply == parseMessageIntent(req.Body)
        IN  reply.intent = "confirm" =>
                \A k \in hookResponse'.updated :
                    cleaning_jobs[k].status = "confirmed" =>
                        \A m \in WithinDays(UpcomingOpenJobs(cleaning_jobs[k].cleaner_id[1]), 30) :
                            cleaning_jobs[m].status # "pending"
      ]_vars

-----------------------------------------------------------------------------
(* Properties of the stored jobs, whoever made them (JobSpec) *)

\* C28: every job in the store, whether created by the manual createJob
\* service or by calendar sync, satisfies: is_same_day_turnaround is true
\* iff checkin_date is present and falls on the same calendar date as
\* checkout_date.
C28_SameDayFlagMatchesDates ==
    \A k \in DOMAIN cleaning_jobs :
        cleaning_jobs[k].is_same_day_turnaround
            <=> /\ cleaning_jobs[k].checkin_date # None
                /\ cleaning_jobs[k].checkin_date[1] = cleaning_jobs[k].checkout_date

-----------------------------------------------------------------------------
(* Properties of the per-property results (Spec) *)

\* the number of jobs of property p the step has added to the table
AddedInStep(p) == Len(JobsOf(cleaning_jobs', p)) - Len(JobsOf(cleaning_jobs, p))

\* C29: in every PropertyResult, success is true iff no error message is
\* present, and a failed result has jobs_created = 0 with no job added to
\* the store by that pass: every failure point (fetch, parse, cleaner
\* lookup) precedes the first job-creation attempt, and a failed cleaner
\* lookup fails the property even when its feed parsed correctly.
C29_FailedPassStoresNothing ==
    [][RunStep =>
          \A p \in PropertyIds :
              /\ \A r \in ResultsOf(response', p) :
                    /\ r.success <=> "error" \notin DOMAIN r
                    /\ ~r.success =>
                          /\ r.error # <<>>
                          /\ r.jobs_created = 0
                          /\ AddedInStep(p) = 0
                          /\ JobsOf(cleaning_jobs', p) = JobsOf(cleaning_jobs, p)
              /\ (/\ HasFault(faulted', "cleaners", p, 0)
                  /\ ~HasFault(faulted', "properties", 0, 0)
                  /\ properties[p].active
                  /\ parseICalFromUrl(remote[p]).ok) =>
                     /\ ResultsOf(response', p) # {}
                     /\ \A r \in ResultsOf(response', p) :
                           /\ ~r.success
                           /\ Head(r.error) = "Failed to fetch cleaners: "
      ]_vars

\* the cleaner lookup of a property has failed in a run that found a
\* checkout without a job in the property's feed: the result is a failure
\* with no job created, and the checkout is still without a job
C29_Witness ==
    /\ runs > 0
    /\ \E f \in faulted :
          /\ f.kind = "cleaners"
          /\ Considered(f.property) # <<>>
          /\ \E r \in ResultsOf(response, f.property) :
                ~r.success /\ r.jobs_created = 0
          /\ JobsOf(cleaning_jobs, f.property) = <<>>

\* C30: for every property result, jobs_created equals the number of job
\* records that pass actually added to the store (store size after the
\* pass minus store size before it): a checkout skipped as existing, or
\* whose existence check or insert returned an error, is never counted.
C30_JobsCreatedCountsStoredJobs ==
    [][RunStep =>
          /\ \A p \in PropertyIds :
                /\ \A r \in ResultsOf(response', p) : r.jobs_created = AddedInStep(p)
                /\ ResultsOf(response', p) = {} => AddedInStep(p) = 0
          /\ Len(cleaning_jobs') - Len(cleaning_jobs)
                = Cardinality(CreatedInStep)
          /\ \A k \in DOMAIN cleaning_jobs : cleaning_jobs'[k] = cleaning_jobs[k]
      ]_vars

\* a run in which the existence check of one checkout of a property
\* returned an error and the job of another one was stored and counted
C30_Witness ==
    /\ runs > 0
    /\ \E f \in faulted :
          /\ f.kind = "check"
          /\ f.index \in DOMAIN Considered(f.property)
          /\ Len(Considered(f.property)) >= 2
          /\ \E r \in ResultsOf(response, f.property) :
                r.success /\ r.jobs_created = 1
          /\ Len(JobsOf(cleaning_jobs, f.property)) = 1

-----------------------------------------------------------------------------
(* Properties of overlapping passes (PassSpec) *)

\* C22: when two sync passes for the same property overlap in time, so
\* that their job-existence checks and job inserts interleave, they still
\* never create two jobs with the same (property_id, checkout_date).
C22_OverlappingPassesNeverDuplicate ==
    \A j, k \in DOMAIN cleaning_jobs :
        (/\ cleaning_jobs[j].property_id = cleaning_jobs[k].property_id
         /\ cleaning_jobs[j].checkout_date = cleaning_jobs[k].checkout_date)
            => j = k

\* C23: within one property's pass, the job-existence checks and the
\* job-creation attempts are made one checkout at a time in ascending
\* checkout-date order: the attempt for a later checkout never precedes
\* the attempt for an earlier one.
C23_AttemptsInCheckoutDateOrder ==
    \A n \in DOMAIN passes :
        LET log == passes[n].log
        IN  /\ \A a, b \in DOMAIN log :
                  a < b => /\ log[a].date <= log[b].date
                           /\ log[a].checkout_date <= log[b].checkout_date
                           /\ log[a].index <= log[b].index
            /\ \A a \in DOMAIN log :
                  log[a].op = "insert" =>
                      /\ a > 1
                      /\ log[a - 1].op = "check"
                      /\ log[a - 1].index = log[a].index
            /\ \A a, b \in DOMAIN log :
                  (a # b /\ log[a].op = log[b].op) => log[a].index # log[b].index

\* two passes of one property have both run to their end, each has made
\* attempts for two checkout dates, and one of them has stored both jobs
C23_Witness ==
    /\ Len(passes) = 2
    /\ passes[1].property = passes[2].property
    /\ \A n \in DOMAIN passes :
          /\ passes[n].pc = "done"
          /\ \E a, b \in DOMAIN passes[n].log :
                passes[n].log[a].checkout_date < passes[n].log[b].checkout_date
    /\ \E n \in DOMAIN passes : passes[n].jobs_created = 2

====
